---- MODULE Spec2Model ----
(***************************************************************************)
(* Engagement and access-control layer of the video platform backend:      *)
(* the like-toggle routes of videos, tweets and comments, the Subscription *)
(* collection, and the owner-gated edit/delete routes.                     *)
(*                                                                         *)
(* Every request is an Express handler chain.  Each `await` on the store   *)
(* is one step of the request, so requests in different slots interleave   *)
(* exactly where the Node event loop lets them interleave.                 *)
(***************************************************************************)
EXTENDS Integers, Sequences, FiniteSets, TLC

VARIABLES users, videos, tweets, comments, likes, subs, reqs,
          profiles, temp, cloud, proc

vars == <<users, videos, tweets, comments, likes, subs, reqs,
          profiles, temp, cloud, proc>>

-----------------------------------------------------------------------------
(* Universe of identifiers and request inputs.                             *)

Null == "null"

\* a well-formed ObjectId that matches no document of any collection
NoSuchId == "zz"

Accounts == {"a1", "a2"}
VideoIds == {"v1"}
TweetIds == {"t1"}
CommentIds == {"c1"}

\* the requests that can be in flight at the same time
Slots == {"r1", "r2"}

\* cap on the number of Like documents
MaxLikes == 2

\* JSON values a client can send as body.toggleLike: the literals true and
\* false, and a quoted string (not a boolean)
ToggleValues == {"true", "false", "\"true\""}

\* the type check left out: any value passes
IsBoolean_Any(v) == TRUE

\* typeof toggleLike === "boolean"
IsBoolean(v) == v \in {"true", "false"}

\* the boolean a JSON literal denotes
BoolOf(v) == v = "true"

\* the "nothing to undo" check left out
Falsy_Never(v) == FALSE

\* !toggleLike: of the values above only the literal false is falsy
Falsy(v) == v = "false"

\* cookies a client can present: none, or a token
NoCookie == [present |-> FALSE, _id |-> Null, signed |-> FALSE, expired |-> FALSE]

Token(a, sg, ex) == [present |-> TRUE, _id |-> a, signed |-> sg, expired |-> ex]

-----------------------------------------------------------------------------
(* Requests.                                                               *)

IdleReq ==
  [op |-> "none", pc |-> "idle", cookie |-> NoCookie, id |-> Null, body |-> Null,
   description |-> Null, thumbnail |-> Null, video |-> Null,
   email |-> Null, password |-> Null, setCookie |-> NoCookie, view |-> <<>>,
   user |-> Null, doc |-> <<>>, status |-> 0, error |-> Null]

\* a request routed to handler `op`; its cookie, params and body are filled in
\* at the step that reads them
NewReq(op) == [IdleReq EXCEPT !.op = op, !.pc = "auth"]

\* req.cookies[cookieName]
WithCookie(r, c) == [r EXCEPT !.cookie = c]

\* req.params.<id> and the body field the handler reads
WithInput(r, id, body) == [r EXCEPT !.id = id, !.body = body]

\* res.status(st).json({message, error: error.message}) in a catch block
\* an exception that leaves the handler without a response
Fail_Unhandled(r, st, msg) == [r EXCEPT !.pc = "done", !.status = 0, !.error = msg]

Fail(r, st, msg) == [r EXCEPT !.pc = "done", !.status = st, !.error = msg]

\* a success response
Ok(r, st) == [r EXCEPT !.pc = "done", !.status = st, !.error = Null]

Goto(r, pc) == [r EXCEPT !.pc = pc]

InFlight(s) == reqs[s].pc \notin {"idle", "done"}

-----------------------------------------------------------------------------
(* Session resolution: the authenticateUser middleware.                    *)

\* jwt.verify called with the expiry check switched off
JwtVerify_IgnoreExpiration(c) ==
  IF ~c.signed THEN "JsonWebTokenError"
  ELSE "ok"

\* jwt.decode in place of jwt.verify: the signature is not checked
JwtVerify_NoSignature(c) ==
  IF c.expired THEN "TokenExpiredError"
  ELSE "ok"

\* jwt.verify: the signature is checked before the expiry
JwtVerify(c) ==
  IF ~c.signed THEN "JsonWebTokenError"
  ELSE IF c.expired THEN "TokenExpiredError"
  ELSE "ok"

\* the middleware trusting the token's payload without loading the account
AuthStep_NoLookup(r, first) ==
  IF ~r.cookie.present
    THEN Fail(r, 401, "Authentication failed. Please try again.")
  ELSE IF JwtVerify(r.cookie) = "JsonWebTokenError"
    THEN Fail(r, 401, "Invalid authentication token")
  ELSE IF JwtVerify(r.cookie) = "TokenExpiredError"
    THEN Fail(r, 401, "Session expired. Please log in again.")
  ELSE [r EXCEPT !.user = r.cookie._id, !.pc = first]

\* one step: read the cookie, verify the token, look the account up
AuthStep(r, first) ==
  IF ~r.cookie.present
    THEN Fail(r, 401, "Authentication failed. Please try again.")
  ELSE IF JwtVerify(r.cookie) = "JsonWebTokenError"
    THEN Fail(r, 401, "Invalid authentication token")
  ELSE IF JwtVerify(r.cookie) = "TokenExpiredError"
    THEN Fail(r, 401, "Session expired. Please log in again.")
  ELSE IF r.cookie._id \notin users
    THEN Fail(r, 401, "Authentication failed. Please try again.")
  ELSE [r EXCEPT !.user = r.cookie._id, !.pc = first]

\* the first step of each guarded handler
FirstPc(op) ==
  CASE op = "editVideo" -> "findTarget"
    [] op = "follow" -> "findEdge"
    [] op = "uploadVideo" -> "multer"
    [] op = "editAvatar" -> "multer"
    [] op = "logout" -> "respond"
    [] OTHER -> "findUser"

\* the cookies a client can present
Cookies ==
  {NoCookie} \cup {Token(a, sg, ex) : a \in Accounts, sg \in BOOLEAN, ex \in BOOLEAN}

Authenticate(s) ==
  /\ reqs[s].pc = "auth"
  /\ \E c \in Cookies :
       reqs' = [reqs EXCEPT ![s] = AuthStep(WithCookie(reqs[s], c), FirstPc(reqs[s].op))]
  /\ UNCHANGED <<users, videos, tweets, comments, likes, subs,
               profiles, temp, cloud, proc>>

-----------------------------------------------------------------------------
(* The Like collection: a set of documents.  The schema declares plain    *)
(* indexes on likedBy, comment, video and tweet, and no unique index.      *)

\* no document
NoDoc == <<>>

\* a fresh ObjectId: the n-th Like document made for this account and target
NewLikeId(L, by, field, id) ==
  <<by, field, id, 1 + Cardinality({x \in L : x.likedBy = by /\ x[field] = id})>>

LikeRow(oid, liked, by, c, v, t) ==
  [_id |-> oid, isLiked |-> liked, likedBy |-> by, comment |-> c, video |-> v, tweet |-> t]

\* LikeModel.findOne({<field>: id, likedBy: userId}): the _id of the oldest
\* matching document, NoDoc if none matches
FindOneLike(L, field, id, by) ==
  LET hits == {x \in L : x[field] = id /\ x.likedBy = by}
  IN IF hits = {} THEN NoDoc
     ELSE (CHOOSE x \in hits : \A y \in hits : x._id[4] <= y._id[4])._id

\* an unlike that deletes the document instead of keeping it as a tombstone
UpdateLike_DeleteOnUnlike(L, oid, v) ==
  IF v THEN {IF x._id = oid THEN [x EXCEPT !.isLiked = v] ELSE x : x \in L}
       ELSE {x \in L : x._id # oid}

\* an update that is not restricted to the document's _id
UpdateLike_Many(L, oid, v) == {[x EXCEPT !.isLiked = v] : x \in L}

\* existingLike.isLiked = v; existingLike.save(): $set on the document's _id
UpdateLike(L, oid, v) ==
  {IF x._id = oid THEN [x EXCEPT !.isLiked = v] ELSE x : x \in L}

\* new LikeModel(row).save(): an insert; no uniqueness constraint rejects it
InsertLike(L, row) == L \cup {row}

\* new LikeModel({video: videoId, likedBy: userId, isLiked: true})
VideoLikeDoc(oid, by, id) == LikeRow(oid, TRUE, by, Null, id, Null)

\* the tweet handler copied from the video handler with the field name kept
TweetLikeDoc_VideoField(oid, by, id) == LikeRow(oid, TRUE, by, Null, id, Null)

\* new LikeModel({tweet: tweetId, likedBy: userId, isLiked: true})
TweetLikeDoc(oid, by, id) == LikeRow(oid, TRUE, by, Null, Null, id)

\* new LikeModel({comment: commentId, likedBy: userId, isLiked: true})
CommentLikeDoc(oid, by, id) == LikeRow(oid, TRUE, by, id, Null, Null)

\* the Like documents of one (account, target) pair
RowsFor(L, field, id, by) == {x \in L : x[field] = id /\ x.likedBy = by}

-----------------------------------------------------------------------------
(* POST /videos/:videoId/toggle/like                                       *)

VideoToggleLikeStep(r, L) ==
  CASE r.pc = "findUser" ->
         [likes |-> L,
          req |-> IF r.user \notin users
                    THEN Fail(r, 400, "Unable to find the user")
                    ELSE Goto(r, "findTarget")]
    [] r.pc = "findTarget" ->
         [likes |-> L,
          req |-> IF r.id \notin DOMAIN videos
                    THEN Fail(r, 400, "Unable to find the video")
                  ELSE IF ~IsBoolean(r.body)
                    THEN Fail(r, 400, "toggleLike must be a boolean: true to like or false to remove the like")
                  ELSE Goto(r, "findLike")]
    [] r.pc = "findLike" ->
         LET existingLike == FindOneLike(L, "video", r.id, r.user)
         IN [likes |-> L,
             req |-> IF existingLike # NoDoc
                       THEN [r EXCEPT !.doc = existingLike, !.pc = "save"]
                     ELSE IF Falsy(r.body)
                       THEN Fail(r, 400, "No like exists to remove.")
                     ELSE [r EXCEPT !.doc = NoDoc, !.pc = "save"]]
    [] r.pc = "save" ->
         IF r.doc # NoDoc
           THEN [likes |-> UpdateLike(L, r.doc, BoolOf(r.body)), req |-> Ok(r, 201)]
           ELSE [likes |-> InsertLike(L, VideoLikeDoc(NewLikeId(L, r.user, "video", r.id), r.user, r.id)),
                 req |-> Ok(r, 201)]

(* POST /tweets/:tweetId/toggle/like                                       *)

TweetToggleLikeStep(r, L) ==
  CASE r.pc = "findUser" ->
         [likes |-> L,
          req |-> IF r.user \notin users
                    THEN Fail(r, 400, "Unable to find the user")
                    ELSE Goto(r, "findTarget")]
    [] r.pc = "findTarget" ->
         [likes |-> L,
          req |-> IF r.id \notin DOMAIN tweets
                    THEN Fail(r, 400, "Unable to find the video")
                  ELSE IF ~IsBoolean(r.body)
                    THEN Fail(r, 400, "toggleLike must be a boolean: true to like or false to remove the like")
                  ELSE Goto(r, "findLike")]
    [] r.pc = "findLike" ->
         LET existingLike == FindOneLike(L, "tweet", r.id, r.user)
         IN [likes |-> L,
             req |-> IF existingLike # NoDoc
                       THEN [r EXCEPT !.doc = existingLike, !.pc = "save"]
                     ELSE IF Falsy(r.body)
                       THEN Fail(r, 400, "No like exists to remove.")
                     ELSE [r EXCEPT !.doc = NoDoc, !.pc = "save"]]
    [] r.pc = "save" ->
         IF r.doc # NoDoc
           THEN [likes |-> UpdateLike(L, r.doc, BoolOf(r.body)), req |-> Ok(r, 201)]
           ELSE [likes |-> InsertLike(L, TweetLikeDoc(NewLikeId(L, r.user, "tweet", r.id), r.user, r.id)),
                 req |-> Ok(r, 201)]

(* POST /comments/:commentId/toggle/like                                   *)

CommentToggleLikeStep(r, L) ==
  CASE r.pc = "findUser" ->
         [likes |-> L,
          req |-> IF r.user \notin users
                    THEN Fail(r, 400, "Unable to find the user")
                    ELSE Goto(r, "findTarget")]
    [] r.pc = "findTarget" ->
         [likes |-> L,
          req |-> IF r.id \notin DOMAIN comments
                    THEN Fail(r, 400, "Unable to find the video")
                  ELSE IF ~IsBoolean(r.body)
                    THEN Fail(r, 400, "toggleLike must be a boolean: true to like or false to remove the like")
                  ELSE Goto(r, "findLike")]
    [] r.pc = "findLike" ->
         LET existingLike == FindOneLike(L, "comment", r.id, r.user)
         IN [likes |-> L,
             req |-> IF existingLike # NoDoc
                       THEN [r EXCEPT !.doc = existingLike, !.pc = "save"]
                     ELSE IF Falsy(r.body)
                       THEN Fail(r, 400, "No like exists to remove.")
                     ELSE [r EXCEPT !.doc = NoDoc, !.pc = "save"]]
    [] r.pc = "save" ->
         IF r.doc # NoDoc
           THEN [likes |-> UpdateLike(L, r.doc, BoolOf(r.body)), req |-> Ok(r, 201)]
           ELSE [likes |-> InsertLike(L, CommentLikeDoc(NewLikeId(L, r.user, "comment", r.id), r.user, r.id)),
                 req |-> Ok(r, 201)]

LikePcs == {"findUser", "findTarget", "findLike", "save"}

LikeOps == {"likeVideo", "likeTweet", "likeComment"}

\* the ids a client can address with a like request of each kind
LikeTargets(op) ==
  CASE op = "likeVideo" -> VideoIds \cup {NoSuchId}
    [] op = "likeTweet" -> TweetIds \cup {NoSuchId}
    [] op = "likeComment" -> CommentIds \cup {NoSuchId}

\* the target field each like handler queries and populates
LikeField(op) ==
  CASE op = "likeVideo" -> "video"
    [] op = "likeTweet" -> "tweet"
    [] op = "likeComment" -> "comment"

\* like requests in flight that may still insert a document
PendingInserts(s) ==
  {x \in Slots \ {s} : /\ reqs[x].op \in LikeOps
                         /\ reqs[x].body = "true"
                         /\ \/ reqs[x].pc = "findLike"
                            \/ reqs[x].pc = "save" /\ reqs[x].doc = NoDoc}

\* the request of slot s as its next step sees it: the step that looks the
\* target up reads req.params and req.body.toggleLike.  A like of a pair that
\* has no document yet is admitted only while the collection has room.
LikeInputs(s) ==
  IF reqs[s].pc = "findTarget"
    THEN {WithInput(reqs[s], p[1], p[2]) :
            p \in {q \in LikeTargets(reqs[s].op) \X ToggleValues :
                     (/\ q[2] = "true"
                      /\ RowsFor(likes, LikeField(reqs[s].op), q[1], reqs[s].user) = {})
                     => Cardinality(likes) + Cardinality(PendingInserts(s)) < MaxLikes}}
    ELSE {reqs[s]}

VideoToggleLike(s) ==
  /\ reqs[s].op = "likeVideo"
  /\ reqs[s].pc \in LikePcs
  /\ \E r \in LikeInputs(s) :
       LET res == VideoToggleLikeStep(r, likes)
       IN /\ reqs' = [reqs EXCEPT ![s] = res.req]
          /\ likes' = res.likes
  /\ UNCHANGED <<users, videos, tweets, comments, subs,
               profiles, temp, cloud, proc>>

TweetToggleLike(s) ==
  /\ reqs[s].op = "likeTweet"
  /\ reqs[s].pc \in LikePcs
  /\ \E r \in LikeInputs(s) :
       LET res == TweetToggleLikeStep(r, likes)
       IN /\ reqs' = [reqs EXCEPT ![s] = res.req]
          /\ likes' = res.likes
  /\ UNCHANGED <<users, videos, tweets, comments, subs,
               profiles, temp, cloud, proc>>

CommentToggleLike(s) ==
  /\ reqs[s].op = "likeComment"
  /\ reqs[s].pc \in LikePcs
  /\ \E r \in LikeInputs(s) :
       LET res == CommentToggleLikeStep(r, likes)
       IN /\ reqs' = [reqs EXCEPT ![s] = res.req]
          /\ likes' = res.likes
  /\ UNCHANGED <<users, videos, tweets, comments, subs,
               profiles, temp, cloud, proc>>

\* a like-toggle request arrives
ReceiveLike(s) ==
  /\ ~InFlight(s)
  /\ \E op \in LikeOps : reqs' = [reqs EXCEPT ![s] = NewReq(op)]
  /\ UNCHANGED <<users, videos, tweets, comments, likes, subs,
               profiles, temp, cloud, proc>>

-----------------------------------------------------------------------------
(* The state when the server starts to listen: two registered accounts;   *)
(* a1 has uploaded video v1, posted tweet t1 and commented c1 on v1.  No   *)
(* likes, no follows, no file in public/temp, no object in the media       *)
(* store.                                                                  *)

SeedVideo == [owner |-> "a1", title |-> "t0", description |-> "d0", thumbnail |-> "th0"]
SeedTweet == [owner |-> "a1", content |-> "c0"]
SeedComment == [owner |-> "a1", video |-> "v1", content |-> "c0"]

\* bcrypt.hash(password, 10)
Hash(pw) == "hash-of-" \o pw

\* the default of the avatar path of the User schema
DefaultAvatar == "upload.wikimedia.org/Unknown_person.jpg"

\* the User document of a seeded account
SeedProfile(a) ==
  [username |-> a, email |-> a \o "@x.io", password |-> Hash("right"),
   avatar |-> DefaultAvatar]

Init ==
  /\ users = Accounts
  /\ videos = [v \in VideoIds |-> SeedVideo]
  /\ tweets = [t \in TweetIds |-> SeedTweet]
  /\ comments = [c \in CommentIds |-> SeedComment]
  /\ likes = {}
  /\ subs = {}
  /\ reqs = [s \in Slots |-> IdleReq]
  /\ profiles = [a \in Accounts |-> SeedProfile(a)]
  /\ temp = <<>>
  /\ cloud = <<>>
  /\ proc = "listening"

NextLike ==
  \E s \in Slots :
    \/ ReceiveLike(s)
    \/ Authenticate(s)
    \/ VideoToggleLike(s)
    \/ TweetToggleLike(s)
    \/ CommentToggleLike(s)

SpecLike == Init /\ [][NextLike]_vars

-----------------------------------------------------------------------------
(* Vocabulary of the properties of the like-toggle routes.                 *)

NotFoundMsg == "Unable to find the video"
InvalidInputMsg == "toggleLike must be a boolean: true to like or false to remove the like"
NothingToUndoMsg == "No like exists to remove."

IsLikeReq(s) == reqs[s].op \in LikeOps

\* a JSON value that is neither of the literals true and false
NotBooleanJson(v) == v \notin {"true", "false"}

\* the collection each like handler looks its target up in
LikeTargetExists(op, id) ==
  CASE op = "likeVideo" -> id \in DOMAIN videos
    [] op = "likeTweet" -> id \in DOMAIN tweets
    [] op = "likeComment" -> id \in DOMAIN comments

\* the Like documents of the pair the request of slot s addresses
PairRows(L, s) == RowsFor(L, LikeField(reqs[s].op), reqs[s].id, reqs[s].user)

SamePair(x, y) ==
  /\ x.likedBy = y.likedBy
  /\ x.comment = y.comment
  /\ x.video = y.video
  /\ x.tweet = y.tweet

\* this step is a step of the like request in slot s
LikeStepOf(s) == IsLikeReq(s) /\ InFlight(s) /\ reqs'[s] # reqs[s]

StoreUnchangedButLikes ==
  /\ users' = users
  /\ videos' = videos
  /\ tweets' = tweets
  /\ comments' = comments
  /\ subs' = subs

(* C1: in every reachable state the Like collection holds at most one      *)
(* document per (likedBy account, target) pair.                            *)
C1_OneRowPerPair ==
  \A x \in likes : \A y \in likes : SamePair(x, y) => x = y

(* C2: of two like requests for the same pair that both read "no existing  *)
(* like" before either wrote, exactly one creates the document and the     *)
(* other is answered with a conflict: they never both succeed, and one     *)
(* document exists for the pair afterwards.                                *)
C2_LoserGetsConflict ==
  \A s \in Slots : \A t \in Slots \ {s} :
    ( /\ IsLikeReq(s) /\ reqs[t].op = reqs[s].op
      /\ reqs[s].pc = "done" /\ reqs[t].pc = "done"
      /\ reqs[s].user # Null /\ reqs[t].user = reqs[s].user
      /\ LikeTargetExists(reqs[s].op, reqs[s].id) /\ reqs[t].id = reqs[s].id
      /\ reqs[s].body = "true" /\ reqs[t].body = "true"
      /\ reqs[s].doc = NoDoc /\ reqs[t].doc = NoDoc )
    => /\ ~(reqs[s].status = 201 /\ reqs[t].status = 201)
       /\ Cardinality(PairRows(likes, s)) = 1

(* C3: an unlike (toggleLike = false) that finds no Like document for its  *)
(* pair fails with status 400 and "No like exists to remove.", and the     *)
(* step leaves the Like collection as it was; this holds for the video,    *)
(* the tweet and the comment handler.                                      *)
C3_UnlikeOfAbsentFails ==
  [][\A s \in Slots :
       ( /\ LikeStepOf(s)
         /\ reqs[s].pc = "findLike"
         /\ reqs[s].body = "false"
         /\ PairRows(likes, s) = {} )
       => /\ reqs'[s].pc = "done"
          /\ reqs'[s].status = 400
          /\ reqs'[s].error = NothingToUndoMsg
          /\ likes' = likes]_vars

\* two unlikes of different kinds have both failed on pairs without a document
C3_Witness ==
  \E s \in Slots : \E t \in Slots \ {s} :
    /\ IsLikeReq(s) /\ IsLikeReq(t) /\ reqs[s].op # reqs[t].op
    /\ reqs[s].pc = "done" /\ reqs[t].pc = "done"
    /\ reqs[s].body = "false" /\ reqs[t].body = "false"
    /\ reqs[s].error = NothingToUndoMsg /\ reqs[t].error = NothingToUndoMsg
    /\ PairRows(likes, s) = {} /\ PairRows(likes, t) = {}

(* C4: a like or unlike request that finds a Like document for its pair    *)
(* succeeds and leaves exactly one document for the pair, whose            *)
(* disposition is the requested one.                                       *)
C4_ExistingRowIsSet ==
  [][\A s \in Slots :
       ( /\ LikeStepOf(s)
         /\ reqs[s].pc = "save"
         /\ reqs[s].doc # NoDoc )
       => /\ reqs'[s].pc = "done"
          /\ reqs'[s].status = 201
          /\ Cardinality(PairRows(likes', s)) = 1
          /\ \A x \in PairRows(likes', s) : x.isLiked = BoolOf(reqs[s].body)]_vars

(* C5: a Like document, once created, is in the collection in every later  *)
(* state with the same account and target; an unlike that finds the        *)
(* document keeps it and sets its isLiked to false.                        *)
C5_RowNeverRemoved ==
  [][ /\ \A x \in likes : \E y \in likes' : y._id = x._id /\ SamePair(x, y)
      /\ \A s \in Slots :
           ( /\ LikeStepOf(s)
             /\ reqs[s].pc = "save"
             /\ reqs[s].doc # NoDoc
             /\ reqs[s].body = "false" )
           => \E y \in likes' : y._id = reqs[s].doc /\ y.isLiked = FALSE ]_vars

\* an unlike has succeeded and its pair's document is a tombstone
C5_Witness ==
  \E s \in Slots :
    /\ IsLikeReq(s) /\ reqs[s].pc = "done" /\ reqs[s].status = 201
    /\ reqs[s].body = "false"
    /\ \E x \in PairRows(likes, s) : x._id = reqs[s].doc /\ x.isLiked = FALSE

\* how a finished like request was answered when its target is missing or
\* its toggleLike is not a boolean
C6_Answer ==
  \A s \in Slots :
    (IsLikeReq(s) /\ reqs[s].pc = "done" /\ reqs[s].user # Null)
    => /\ ~LikeTargetExists(reqs[s].op, reqs[s].id)
            => reqs[s].status = 400 /\ reqs[s].error = NotFoundMsg
       /\ (LikeTargetExists(reqs[s].op, reqs[s].id) /\ NotBooleanJson(reqs[s].body))
            => reqs[s].status = 400 /\ reqs[s].error = InvalidInputMsg

(* C6: an authenticated like request whose target does not exist is        *)
(* answered 400 "Unable to find the video", also when its toggleLike is    *)
(* not a boolean (the existence check comes first); one whose target       *)
(* exists and whose toggleLike is not a boolean is answered 400            *)
(* "toggleLike must be a boolean ..."; no step of either changes the Like  *)
(* collection.                                                             *)
C6_NotFoundAndInvalidInput ==
  /\ []C6_Answer
  /\ [][\A s \in Slots :
          ( /\ LikeStepOf(s)
            /\ reqs'[s].id # Null
            /\ \/ ~LikeTargetExists(reqs[s].op, reqs'[s].id)
               \/ NotBooleanJson(reqs'[s].body) )
          => likes' = likes]_vars

\* a request with a missing target and a non-boolean toggleLike got NotFound,
\* another with an existing target and a non-boolean toggleLike InvalidInput
C6_Witness ==
  \E s \in Slots : \E t \in Slots \ {s} :
    /\ IsLikeReq(s) /\ reqs[s].pc = "done"
    /\ reqs[s].id = NoSuchId /\ NotBooleanJson(reqs[s].body)
    /\ reqs[s].error = NotFoundMsg
    /\ IsLikeReq(t) /\ reqs[t].pc = "done"
    /\ LikeTargetExists(reqs[t].op, reqs[t].id) /\ NotBooleanJson(reqs[t].body)
    /\ reqs[t].error = InvalidInputMsg

-----------------------------------------------------------------------------
(* Correspondence between the like handlers: the handler, field and id of  *)
(* kind A stand for those of kind B and the other way round.               *)

KindOp(k) ==
  CASE k = "video" -> "likeVideo"
    [] k = "tweet" -> "likeTweet"
    [] k = "comment" -> "likeComment"

KindIds(k) ==
  CASE k = "video" -> VideoIds
    [] k = "tweet" -> TweetIds
    [] k = "comment" -> CommentIds

SwapKind(k, A, B) == IF k = A THEN B ELSE IF k = B THEN A ELSE k

SwapOp(op, A, B) ==
  IF op = KindOp(A) THEN KindOp(B) ELSE IF op = KindOp(B) THEN KindOp(A) ELSE op

\* the id of kind B that stands for id x of kind A
SwapId(x, A, B) ==
  IF x \in KindIds(A) THEN CHOOSE y \in KindIds(B) : TRUE
  ELSE IF x \in KindIds(B) THEN CHOOSE y \in KindIds(A) : TRUE
  ELSE x

SwapOid(o, A, B) ==
  IF o = NoDoc THEN NoDoc ELSE <<o[1], SwapKind(o[2], A, B), SwapId(o[3], A, B), o[4]>>

SwapRow(x, A, B) ==
  [x EXCEPT !._id = SwapOid(x._id, A, B),
            ![A] = SwapId(x[B], A, B),
            ![B] = SwapId(x[A], A, B)]

SwapRows(L, A, B) == {SwapRow(x, A, B) : x \in L}

SwapReq(r, A, B) ==
  [r EXCEPT !.op = SwapOp(r.op, A, B),
            !.id = SwapId(r.id, A, B),
            !.doc = SwapOid(r.doc, A, B)]

SwapResult(res, A, B) ==
  [likes |-> SwapRows(res.likes, A, B), req |-> SwapReq(res.req, A, B)]

(* C7: on corresponding inputs (same account, same existence of the        *)
(* target, same toggleLike, same documents of the pair) each step of the   *)
(* tweet handler and of the comment handler gives the answer and the Like  *)
(* collection the video handler gives, up to the target field populated.   *)
C7_HandlersAgree ==
  \A s \in Slots :
    (reqs[s].op = "likeVideo" /\ reqs[s].pc \in LikePcs)
    => \A r \in LikeInputs(s) :
         /\ SwapResult(VideoToggleLikeStep(r, likes), "video", "tweet")
              = TweetToggleLikeStep(SwapReq(r, "video", "tweet"),
                                    SwapRows(likes, "video", "tweet"))
         /\ SwapResult(VideoToggleLikeStep(r, likes), "video", "comment")
              = CommentToggleLikeStep(SwapReq(r, "video", "comment"),
                                      SwapRows(likes, "video", "comment"))

\* a video like is about to insert its document while a tweet like is stored
C7_Witness ==
  \E s \in Slots :
    /\ reqs[s].op = "likeVideo" /\ reqs[s].pc = "save" /\ reqs[s].doc = NoDoc
    /\ \E x \in likes : x.tweet # Null

(* C8: a step of a like request leaves accounts, videos, tweets, comments  *)
(* and subscriptions unchanged; it changes the Like collection only in the *)
(* step that answers 201, and then in at most one document, which belongs  *)
(* to the request's (account, target) pair; so a request that fails has    *)
(* changed nothing.                                                        *)
C8_OnlyOwnRowChanges ==
  [][\A s \in Slots :
       LikeStepOf(s)
       => /\ StoreUnchangedButLikes
          /\ likes' # likes
               => /\ reqs'[s].pc = "done" /\ reqs'[s].status = 201
                  /\ Cardinality(likes' \ likes) = 1
                  /\ Cardinality(likes \ likes') <= 1
                  /\ \A x \in likes' \ likes : x \in PairRows(likes', s)
                  /\ \A x \in likes \ likes' :
                       /\ x \in PairRows(likes, s)
                       /\ \E y \in likes' \ likes : y._id = x._id]_vars

\* an update has succeeded while a document of another pair is stored
C8_Witness ==
  \E s \in Slots :
    /\ IsLikeReq(s) /\ reqs[s].pc = "done" /\ reqs[s].status = 201
    /\ reqs[s].doc # NoDoc
    /\ \E x \in PairRows(likes, s) : x.isLiked = BoolOf(reqs[s].body)
    /\ \E y \in likes : y \notin PairRows(likes, s)

-----------------------------------------------------------------------------
(* The Subscription collection and the follow operation.  The schema and   *)
(* its compound unique index are the repository's; the repository mounts   *)
(* no route that writes the collection, so the follow handler is the one   *)
(* the design describes: look the edge up, insert it, and report a         *)
(* duplicate as AlreadyFollowing.                                          *)

\* no compound index declared on the schema
SubscriptionIndexUnique_Missing == FALSE

\* SubscriptionSchema.index({subscriber: 1, channel: 1}, {unique: true})
SubscriptionIndexUnique == TRUE

\* the Subscription documents of one (subscriber, channel) pair
EdgesFor(S, sub, ch) == {e \in S : e.subscriber = sub /\ e.channel = ch}

\* a Subscription document with a fresh ObjectId
SubscriptionDoc(S, sub, ch) ==
  [_id |-> <<sub, ch, 1 + Cardinality(EdgesFor(S, sub, ch))>>,
   subscriber |-> sub, channel |-> ch]

\* new SubscriptionModel({subscriber, channel}).save(): the store checks the
\* unique index and inserts in one atomic write
InsertSubscription(S, sub, ch) ==
  IF SubscriptionIndexUnique /\ EdgesFor(S, sub, ch) # {}
    THEN [ok |-> FALSE, subs |-> S]
    ELSE [ok |-> TRUE, subs |-> S \cup {SubscriptionDoc(S, sub, ch)}]

\* the _id of the pair's edge, NoDoc if it has none
FindOneEdge(S, sub, ch) ==
  IF EdgesFor(S, sub, ch) = {} THEN NoDoc
  ELSE (CHOOSE e \in EdgesFor(S, sub, ch) :
          \A f \in EdgesFor(S, sub, ch) : e._id[3] <= f._id[3])._id

AlreadyFollowingMsg == "AlreadyFollowing"

\* follow(subscriber, channel)
FollowStep(r, S) ==
  CASE r.pc = "findEdge" ->
         LET existing == FindOneEdge(S, r.user, r.id)
         IN [subs |-> S,
             req |-> IF existing # NoDoc
                       THEN Fail([r EXCEPT !.doc = existing], 400, AlreadyFollowingMsg)
                       ELSE Goto(r, "save")]
    [] r.pc = "save" ->
         LET w == InsertSubscription(S, r.user, r.id)
         IN [subs |-> w.subs,
             req |-> IF w.ok THEN Ok(r, 201) ELSE Fail(r, 400, AlreadyFollowingMsg)]

Follow(s) ==
  /\ reqs[s].op = "follow"
  /\ reqs[s].pc \in {"findEdge", "save"}
  /\ \E r \in IF reqs[s].pc = "findEdge"
                THEN {WithInput(reqs[s], ch, Null) : ch \in Accounts}
                ELSE {reqs[s]} :
       LET res == FollowStep(r, subs)
       IN /\ reqs' = [reqs EXCEPT ![s] = res.req]
          /\ subs' = res.subs
  /\ UNCHANGED <<users, videos, tweets, comments, likes,
               profiles, temp, cloud, proc>>

\* a follow request arrives
ReceiveFollow(s) ==
  /\ ~InFlight(s)
  /\ reqs' = [reqs EXCEPT ![s] = NewReq("follow")]
  /\ UNCHANGED <<users, videos, tweets, comments, likes, subs,
               profiles, temp, cloud, proc>>

NextFollow ==
  \E s \in Slots :
    \/ ReceiveFollow(s)
    \/ Authenticate(s)
    \/ Follow(s)

SpecFollow == Init /\ [][NextFollow]_vars

\* no two edges of one (subscriber, channel) pair
C9_UniqueEdges ==
  \A e \in subs : \A f \in subs :
    (e.subscriber = f.subscriber /\ e.channel = f.channel) => e = f

(* C9: the Subscription collection never holds two edges of one            *)
(* (subscriber, channel) pair; a follow call that completes while the pair *)
(* has no edge succeeds and adds exactly that edge, and one that completes *)
(* while the pair has an edge fails with AlreadyFollowing and adds         *)
(* nothing: of any number of calls for a pair, sequential or concurrent,   *)
(* exactly one succeeds.                                                   *)
C9_ExactlyOneFollowSucceeds ==
  /\ []C9_UniqueEdges
  /\ [][\A s \in Slots :
          ( /\ reqs[s].op = "follow"
            /\ reqs[s].pc \in {"findEdge", "save"}
            /\ reqs'[s].pc = "done" )
          => IF EdgesFor(subs, reqs'[s].user, reqs'[s].id) # {}
               THEN /\ reqs'[s].status = 400
                    /\ reqs'[s].error = AlreadyFollowingMsg
                    /\ subs' = subs
               ELSE /\ reqs'[s].status = 201
                    /\ Cardinality(subs' \ subs) = 1
                    /\ subs \subseteq subs'
                    /\ Cardinality(EdgesFor(subs', reqs'[s].user, reqs'[s].id)) = 1]_vars

\* two concurrent follows of one pair have both passed the lookup; one has
\* succeeded, the other was refused by the index, and one edge is stored
C9_Witness ==
  \E s \in Slots : \E t \in Slots \ {s} :
    /\ reqs[s].op = "follow" /\ reqs[t].op = "follow"
    /\ reqs[s].pc = "done" /\ reqs[t].pc = "done"
    /\ reqs[s].user # Null /\ reqs[s].user = reqs[t].user /\ reqs[s].id = reqs[t].id
    /\ reqs[s].status = 201
    /\ reqs[t].error = AlreadyFollowingMsg /\ reqs[t].doc = NoDoc
    /\ Cardinality(EdgesFor(subs, reqs[s].user, reqs[s].id)) = 1

-----------------------------------------------------------------------------
(* Owner-gated edit and delete of videos, tweets and comments.             *)

\* the ownership check left out
IsOwner_Anyone(doc, userId) == TRUE

\* doc.owner.toString() === userId.toString()
IsOwner(doc, userId) == doc.owner = userId

\* values a client can send as a text field: absent, empty, blank, a text
TextValues == {Null, "", " ", "new"}

\* a JavaScript truthy test of a text field
Truthy(v) == v \notin {Null, ""}

\* !content || content.trim() === ""
Blank(v) == v \in {Null, "", " "}

\* a thumbnail file uploaded with the request (req.files.thumbnail), or none
FileValues == {Null, "file"}

\* the URL the media store returns for an uploaded file
UploadedUrl(f) == "url-of-" \o f

\* document.save() of a document loaded earlier: the store rejects it when the
\* document is gone
SaveError == "No document found for query"

\* title, description and thumbnail of an edit-video request
WithVideoEdit(r, id, title, desc, file) ==
  [r EXCEPT !.id = id, !.body = title, !.description = desc, !.thumbnail = file]

(* DELETE /videos/delete/:videoId                                          *)
DeleteVideoStep(r, V) ==
  CASE r.pc = "findUser" ->
         [videos |-> V,
          req |-> IF r.user \notin users
                    THEN Fail(r, 500, "Unable to find the user")
                    ELSE Goto(r, "findTarget")]
    [] r.pc = "findTarget" ->
         [videos |-> V,
          req |-> IF r.id \notin DOMAIN V
                    THEN Fail(r, 500, "Video not found.")
                  ELSE IF ~IsOwner(V[r.id], r.user)
                    THEN Fail(r, 500, "Unauthorized: Only the owner can delete this video.")
                  ELSE Goto(r, "write")]
    [] r.pc = "write" ->
         [videos |-> [v \in DOMAIN V \ {r.id} |-> V[v]], req |-> Ok(r, 200)]

(* PATCH /videos/edit/:videoId                                             *)
EditVideoStep(r, V) ==
  CASE r.pc = "findTarget" ->
         [videos |-> V,
          req |-> IF r.id \notin DOMAIN V
                    THEN Fail(r, 400, "Video not found.")
                  ELSE IF ~IsOwner(V[r.id], r.user)
                    THEN Fail(r, 400, "Unauthorized: Only the owner can edit this video.")
                  ELSE IF r.thumbnail # Null
                    THEN Goto(r, "upload")
                  ELSE Goto(r, "write")]
    [] r.pc = "upload" ->
         [videos |-> V,
          req |-> [r EXCEPT !.thumbnail = UploadedUrl(r.thumbnail), !.pc = "write"]]
    [] r.pc = "write" ->
         IF r.id \notin DOMAIN V
           THEN [videos |-> V, req |-> Fail(r, 400, SaveError)]
           ELSE [videos |->
                   [V EXCEPT ![r.id] =
                      [owner |-> @.owner,
                       title |-> IF Truthy(r.body) THEN r.body ELSE @.title,
                       description |-> IF Truthy(r.description) THEN r.description
                                       ELSE @.description,
                       thumbnail |-> IF r.thumbnail # Null THEN r.thumbnail
                                     ELSE @.thumbnail]],
                 req |-> Ok(r, 200)]

\* the tweet delete handler with the ownership test ahead of the existence test
DeleteTweetStep_OwnerFirst(r, T) ==
  CASE r.pc = "findUser" ->
         [tweets |-> T,
          req |-> IF r.user \notin users
                    THEN Fail(r, 400, "Unable to find the user")
                    ELSE Goto(r, "findTarget")]
    [] r.pc = "findTarget" ->
         [tweets |-> T,
          req |-> IF r.id \notin DOMAIN T \/ ~IsOwner(T[r.id], r.user)
                    THEN Fail(r, 400, "Unauthorized: Only the owner can delete this tweet.")
                  ELSE Goto(r, "write")]
    [] r.pc = "write" ->
         [tweets |-> [t \in DOMAIN T \ {r.id} |-> T[t]], req |-> Ok(r, 200)]

(* DELETE /tweets/delete/:tweetId                                          *)
DeleteTweetStep(r, T) ==
  CASE r.pc = "findUser" ->
         [tweets |-> T,
          req |-> IF r.user \notin users
                    THEN Fail(r, 400, "Unable to find the user")
                    ELSE Goto(r, "findTarget")]
    [] r.pc = "findTarget" ->
         [tweets |-> T,
          req |-> IF r.id \notin DOMAIN T
                    THEN Fail(r, 400, "Tweet not found.")
                  ELSE IF ~IsOwner(T[r.id], r.user)
                    THEN Fail(r, 400, "Unauthorized: Only the owner can delete this tweet.")
                  ELSE Goto(r, "write")]
    [] r.pc = "write" ->
         [tweets |-> [t \in DOMAIN T \ {r.id} |-> T[t]], req |-> Ok(r, 200)]

(* PATCH /tweets/edit/:tweetId                                             *)
EditTweetStep(r, T) ==
  CASE r.pc = "findUser" ->
         [tweets |-> T,
          req |-> IF r.user \notin users
                    THEN Fail(r, 400, "Unable to find the user")
                    ELSE Goto(r, "findTarget")]
    [] r.pc = "findTarget" ->
         [tweets |-> T,
          req |-> IF r.id \notin DOMAIN T
                    THEN Fail(r, 400, "Tweet not found.")
                  ELSE IF ~IsOwner(T[r.id], r.user)
                    THEN Fail(r, 400, "Unauthorized: Only the owner can delete this tweet.")
                  ELSE IF ~Truthy(r.body)
                    THEN Fail(r, 400, "No new content Provided")
                  ELSE Goto(r, "write")]
    [] r.pc = "write" ->
         IF r.id \notin DOMAIN T
           THEN [tweets |-> T, req |-> Fail(r, 400, SaveError)]
           ELSE [tweets |-> [T EXCEPT ![r.id].content = r.body], req |-> Ok(r, 200)]

(* DELETE /comments/delete/:commentId                                      *)
DeleteCommentStep(r, C) ==
  CASE r.pc = "findUser" ->
         [comments |-> C,
          req |-> IF r.user \notin users
                    THEN Fail(r, 400, "User not found")
                    ELSE Goto(r, "findTarget")]
    [] r.pc = "findTarget" ->
         [comments |-> C,
          req |-> IF r.id \notin DOMAIN C
                    THEN Fail(r, 400, "Comment not found")
                  ELSE IF ~IsOwner(C[r.id], r.user)
                    THEN Fail(r, 400, "Unauthorized: Only the comment owner can delete this comment")
                  ELSE Goto(r, "write")]
    [] r.pc = "write" ->
         [comments |-> [c \in DOMAIN C \ {r.id} |-> C[c]], req |-> Ok(r, 200)]

(* PATCH /comments/edit/:commentId                                         *)
EditCommentStep(r, C) ==
  CASE r.pc = "findUser" ->
         [comments |-> C,
          req |-> IF r.user \notin users
                    THEN Fail(r, 400, "User not found")
                    ELSE Goto(r, "findTarget")]
    [] r.pc = "findTarget" ->
         [comments |-> C,
          req |-> IF r.id \notin DOMAIN C
                    THEN Fail(r, 400, "Comment not found")
                  ELSE IF ~IsOwner(C[r.id], r.user)
                    THEN Fail(r, 400, "Unauthorized: Only the owner can edit this comment")
                  ELSE IF Blank(r.body)
                    THEN Fail(r, 400, "Please enter valid comment content")
                  ELSE Goto(r, "write")]
    [] r.pc = "write" ->
         IF r.id \notin DOMAIN C
           THEN [comments |-> C, req |-> Fail(r, 400, SaveError)]
           ELSE [comments |-> [C EXCEPT ![r.id].content = r.body], req |-> Ok(r, 200)]

OwnPcs == {"findUser", "findTarget", "upload", "write"}

\* the request of slot s as its next step sees it: the step that looks the
\* resource up reads req.params, req.body and req.files
OwnInputs(s, ids) ==
  IF reqs[s].pc = "findTarget"
    THEN IF reqs[s].op = "editVideo"
           THEN {WithVideoEdit(reqs[s], id, t, Null, f) :
                   id \in ids \cup {NoSuchId}, t \in {Null, "new"}, f \in FileValues}
                \cup {WithVideoEdit(reqs[s], id, Null, "new", Null) : id \in ids}
           ELSE IF reqs[s].op \in {"editTweet", "editComment"}
             THEN {WithInput(reqs[s], id, v) : id \in ids \cup {NoSuchId}, v \in TextValues}
             ELSE {WithInput(reqs[s], id, Null) : id \in ids \cup {NoSuchId}}
    ELSE {reqs[s]}

DeleteVideo(s) ==
  /\ reqs[s].op = "deleteVideo"
  /\ reqs[s].pc \in OwnPcs
  /\ \E r \in OwnInputs(s, VideoIds \cup DOMAIN videos) :
       LET res == DeleteVideoStep(r, videos)
       IN /\ reqs' = [reqs EXCEPT ![s] = res.req]
          /\ videos' = res.videos
  /\ UNCHANGED <<users, tweets, comments, likes, subs,
               profiles, temp, cloud, proc>>

EditVideo(s) ==
  /\ reqs[s].op = "editVideo"
  /\ reqs[s].pc \in OwnPcs
  /\ \E r \in OwnInputs(s, VideoIds \cup DOMAIN videos) :
       LET res == EditVideoStep(r, videos)
       IN /\ reqs' = [reqs EXCEPT ![s] = res.req]
          /\ videos' = res.videos
  /\ UNCHANGED <<users, tweets, comments, likes, subs,
               profiles, temp, cloud, proc>>

DeleteTweet(s) ==
  /\ reqs[s].op = "deleteTweet"
  /\ reqs[s].pc \in OwnPcs
  /\ \E r \in OwnInputs(s, TweetIds \cup DOMAIN tweets) :
       LET res == DeleteTweetStep(r, tweets)
       IN /\ reqs' = [reqs EXCEPT ![s] = res.req]
          /\ tweets' = res.tweets
  /\ UNCHANGED <<users, videos, comments, likes, subs,
               profiles, temp, cloud, proc>>

EditTweet(s) ==
  /\ reqs[s].op = "editTweet"
  /\ reqs[s].pc \in OwnPcs
  /\ \E r \in OwnInputs(s, TweetIds \cup DOMAIN tweets) :
       LET res == EditTweetStep(r, tweets)
       IN /\ reqs' = [reqs EXCEPT ![s] = res.req]
          /\ tweets' = res.tweets
  /\ UNCHANGED <<users, videos, comments, likes, subs,
               profiles, temp, cloud, proc>>

DeleteComment(s) ==
  /\ reqs[s].op = "deleteComment"
  /\ reqs[s].pc \in OwnPcs
  /\ \E r \in OwnInputs(s, CommentIds \cup DOMAIN comments) :
       LET res == DeleteCommentStep(r, comments)
       IN /\ reqs' = [reqs EXCEPT ![s] = res.req]
          /\ comments' = res.comments
  /\ UNCHANGED <<users, videos, tweets, likes, subs,
               profiles, temp, cloud, proc>>

EditComment(s) ==
  /\ reqs[s].op = "editComment"
  /\ reqs[s].pc \in OwnPcs
  /\ \E r \in OwnInputs(s, CommentIds \cup DOMAIN comments) :
       LET res == EditCommentStep(r, comments)
       IN /\ reqs' = [reqs EXCEPT ![s] = res.req]
          /\ comments' = res.comments
  /\ UNCHANGED <<users, videos, tweets, likes, subs,
               profiles, temp, cloud, proc>>

OwnOps ==
  {"deleteVideo", "editVideo", "deleteTweet", "editTweet", "deleteComment", "editComment"}

\* an edit or delete request arrives
ReceiveOwn(s) ==
  /\ ~InFlight(s)
  /\ \E op \in OwnOps : reqs' = [reqs EXCEPT ![s] = NewReq(op)]
  /\ UNCHANGED <<users, videos, tweets, comments, likes, subs,
               profiles, temp, cloud, proc>>

NextOwn ==
  \E s \in Slots :
    \/ ReceiveOwn(s)
    \/ Authenticate(s)
    \/ DeleteVideo(s)
    \/ EditVideo(s)
    \/ DeleteTweet(s)
    \/ EditTweet(s)
    \/ DeleteComment(s)
    \/ EditComment(s)

SpecOwn == Init /\ [][NextOwn]_vars

-----------------------------------------------------------------------------
(* Ownership-gated authorization.                                          *)

\* the reasons with which the six handlers refuse a requester who is not the
\* owner
UnauthorizedMsgs ==
  {"Unauthorized: Only the owner can delete this video.",
   "Unauthorized: Only the owner can edit this video.",
   "Unauthorized: Only the owner can delete this tweet.",
   "Unauthorized: Only the owner can edit this comment",
   "Unauthorized: Only the comment owner can delete this comment"}

\* the collection an edit or delete handler works on
OwnColl(op) ==
  CASE op \in {"deleteVideo", "editVideo"} -> videos
    [] op \in {"deleteTweet", "editTweet"} -> tweets
    [] op \in {"deleteComment", "editComment"} -> comments

\* slot s, serving an edit or delete request, takes a step
OwnStepOf(s) == reqs[s].op \in OwnOps /\ InFlight(s) /\ reqs'[s] # reqs[s]

(* C10: for videos, tweets and comments, for edit and delete alike: when   *)
(* an authenticated account addresses an existing resource whose owner is  *)
(* another account, the request ends with an Unauthorized reason and no    *)
(* video, tweet or comment is deleted or modified; and whenever a step of  *)
(* an edit or delete request deletes or modifies a resource, the requester *)
(* is the owner of the resource it addresses.                              *)
C10_NonOwnerDenied ==
  [][ \A s \in Slots :
        OwnStepOf(s) =>
          /\ ( /\ reqs[s].pc = "findTarget"
               /\ reqs'[s].id \in DOMAIN OwnColl(reqs[s].op)
               /\ OwnColl(reqs[s].op)[reqs'[s].id].owner # reqs[s].user )
             => /\ reqs'[s].pc = "done"
                /\ reqs'[s].error \in UnauthorizedMsgs
                /\ UNCHANGED <<videos, tweets, comments>>
          /\ <<videos, tweets, comments>>' # <<videos, tweets, comments>>
             => /\ reqs[s].id \in DOMAIN OwnColl(reqs[s].op)
                /\ OwnColl(reqs[s].op)[reqs[s].id].owner = reqs[s].user
    ]_vars

\* a non-owner's edit of the video was refused while, in the other slot, a
\* non-owner's delete of the comment was refused, and both are untouched
C10_Witness ==
  \E s1, s2 \in Slots :
    /\ reqs[s1].op = "editVideo"
    /\ reqs[s1].pc = "done"
    /\ reqs[s1].error \in UnauthorizedMsgs
    /\ reqs[s1].body = "new"
    /\ reqs[s1].id \in DOMAIN videos
    /\ videos[reqs[s1].id].owner # reqs[s1].user
    /\ videos[reqs[s1].id].title = "t0"
    /\ reqs[s2].op = "deleteComment"
    /\ reqs[s2].pc = "done"
    /\ reqs[s2].error \in UnauthorizedMsgs
    /\ reqs[s2].id \in DOMAIN comments
    /\ comments[reqs[s2].id].owner # reqs[s2].user

\* the reasons with which the six handlers report that the addressed
\* resource does not exist
ResourceNotFoundMsgs == {"Video not found.", "Tweet not found.", "Comment not found"}

(* C11: in the edit and delete handlers of videos, tweets and comments the *)
(* existence of the resource is tested before its ownership: when the      *)
(* look-up of an authenticated requester finds no resource, the request    *)
(* ends with a not-found reason and no resource is touched; and a request  *)
(* is refused as Unauthorized only when the resource it addresses exists.  *)
C11_ExistenceBeforeOwnership ==
  [][ \A s \in Slots :
        OwnStepOf(s) =>
          /\ ( /\ reqs[s].pc = "findTarget"
               /\ reqs'[s].id \notin DOMAIN OwnColl(reqs[s].op) )
             => /\ reqs'[s].pc = "done"
                /\ reqs'[s].error \in ResourceNotFoundMsgs
                /\ reqs'[s].error \notin UnauthorizedMsgs
                /\ UNCHANGED <<videos, tweets, comments>>
          /\ reqs'[s].error \in UnauthorizedMsgs
             => reqs'[s].id \in DOMAIN OwnColl(reqs[s].op)
    ]_vars

\* a non-owner's delete of the tweet the owner has deleted before, and an
\* edit of a comment id that never existed, were both answered not-found
C11_Witness ==
  \E s1, s2 \in Slots :
    /\ reqs[s1].op = "deleteTweet"
    /\ reqs[s1].pc = "done"
    /\ reqs[s1].user = "a2"
    /\ reqs[s1].id = "t1"
    /\ "t1" \notin DOMAIN tweets
    /\ reqs[s1].error = "Tweet not found."
    /\ reqs[s2].op = "editComment"
    /\ reqs[s2].pc = "done"
    /\ reqs[s2].user # Null
    /\ reqs[s2].id = NoSuchId
    /\ reqs[s2].error = "Comment not found"

-----------------------------------------------------------------------------
(* Creation of videos, tweets and comments.                                *)

\* cap on the documents created per collection
MaxNew == 1

Digits == <<"1", "2", "3">>

\* the ObjectId of the n-th document an account creates in a collection; the
\* model spells it so that the creating account can be read back from it
IdName(prefix, by, n) == prefix \o "-" \o by \o "-" \o Digits[n]

\* a fresh ObjectId for a document account `by` adds to collection D
NewId(prefix, by, D) ==
  IdName(prefix, by,
         CHOOSE n \in 1..Len(Digits) :
           /\ IdName(prefix, by, n) \notin DOMAIN D
           /\ \A m \in 1..(n - 1) : IdName(prefix, by, m) \in DOMAIN D)

\* a tweet stored without the reference to its author
NewTweet_NoOwner(by, content) == [owner |-> Null, content |-> content]

\* new TweetModel({owner: userId, content})
NewTweet(by, content) == [owner |-> by, content |-> content]

\* new CommentModel({video: videoId, owner: userId, content})
NewComment(by, videoId, content) == [owner |-> by, video |-> videoId, content |-> content]

\* new VideoModel({thumbnail, owner: userId, title, description, ...})
NewVideo(by, title, desc, thumb) ==
  [owner |-> by, title |-> title, description |-> desc, thumbnail |-> thumb]

\* collection D with document doc added under id
Insert(D, id, doc) == [x \in DOMAIN D \cup {id} |-> IF x = id THEN doc ELSE D[x]]

\* the files and text fields of an upload-video request
WithVideoUpload(r, vf, tf, title, desc) ==
  [r EXCEPT !.video = vf, !.thumbnail = tf, !.body = title, !.description = desc]

(* POST /videos/upload                                                     *)
UploadVideoStep(r, V) ==
  CASE r.pc = "multer" ->
         [videos |-> V,
          req |-> IF r.user = Null
                    THEN Fail(r, 400, "User authentication failed.")
                  ELSE IF r.video = Null
                    THEN Fail(r, 400, "Please upload a video file.")
                  ELSE Goto(r, "upload")]
    [] r.pc = "upload" ->
         [videos |-> V,
          req |-> IF r.thumbnail = Null
                    THEN Fail([r EXCEPT !.video = UploadedUrl(r.video)], 400,
                              "Please upload a thumbnail file.")
                    ELSE [r EXCEPT !.video = UploadedUrl(r.video), !.pc = "upload2"]]
    [] r.pc = "upload2" ->
         [videos |-> V,
          req |-> IF Blank(r.body) \/ Blank(r.description)
                    THEN Fail([r EXCEPT !.thumbnail = UploadedUrl(r.thumbnail)], 400,
                              "Title and description are required.")
                    ELSE [r EXCEPT !.thumbnail = UploadedUrl(r.thumbnail), !.pc = "write"]]
    [] r.pc = "write" ->
         LET id == NewId("v", r.user, V)
         IN [videos |-> Insert(V, id, NewVideo(r.user, r.body, r.description, r.thumbnail)),
             req |-> Ok([r EXCEPT !.id = id], 201)]

(* POST /tweets/upload                                                     *)
UploadTweetStep(r, T) ==
  CASE r.pc = "findUser" ->
         [tweets |-> T,
          req |-> IF r.user \notin users
                    THEN Fail(r, 400, "Unable to find the user")
                  ELSE IF Blank(r.body)
                    THEN Fail(r, 400, "Please write a valid tweet")
                  ELSE Goto(r, "write")]
    [] r.pc = "write" ->
         LET id == NewId("t", r.user, T)
         IN [tweets |-> Insert(T, id, NewTweet(r.user, r.body)),
             req |-> Ok([r EXCEPT !.id = id], 200)]

(* POST /videos/:videoId/comment                                           *)
AddCommentStep(r, C) ==
  CASE r.pc = "findUser" ->
         [comments |-> C,
          req |-> IF r.user \notin users
                    THEN Fail(r, 400, "User not found")
                    ELSE Goto(r, "findTarget")]
    [] r.pc = "findTarget" ->
         [comments |-> C,
          req |-> IF r.id \notin DOMAIN videos
                    THEN Fail(r, 400, "Video not found")
                  ELSE IF Blank(r.body)
                    THEN Fail(r, 400, "Invalid comment")
                  ELSE Goto(r, "write")]
    [] r.pc = "write" ->
         LET id == NewId("c", r.user, C)
         IN [comments |-> Insert(C, id, NewComment(r.user, r.id, r.body)),
             req |-> Ok([r EXCEPT !.doc = <<id>>], 200)]

\* the upload-video request of slot s as its next step sees it: the files
\* are read when multer has parsed them, the text fields when they are
\* validated
UploadVideoInputs(s) ==
  IF reqs[s].pc = "multer"
    THEN {WithVideoUpload(reqs[s], vf, tf, Null, Null) : vf \in FileValues, tf \in FileValues}
  ELSE IF reqs[s].pc = "upload2"
    THEN {WithVideoUpload(reqs[s], reqs[s].video, reqs[s].thumbnail, t, d) :
            t \in {" ", "new"}, d \in {Null, "new"}}
  ELSE {reqs[s]}

UploadVideo(s) ==
  /\ reqs[s].op = "uploadVideo"
  /\ reqs[s].pc \in {"multer", "upload", "upload2", "write"}
  /\ \E r \in UploadVideoInputs(s) :
       LET res == UploadVideoStep(r, videos)
       IN /\ reqs' = [reqs EXCEPT ![s] = res.req]
          /\ videos' = res.videos
  /\ UNCHANGED <<users, tweets, comments, likes, subs,
               profiles, temp, cloud, proc>>

UploadTweet(s) ==
  /\ reqs[s].op = "uploadTweet"
  /\ reqs[s].pc \in {"findUser", "write"}
  /\ \E r \in IF reqs[s].pc = "findUser"
                THEN {WithInput(reqs[s], Null, c) : c \in TextValues}
                ELSE {reqs[s]} :
       LET res == UploadTweetStep(r, tweets)
       IN /\ reqs' = [reqs EXCEPT ![s] = res.req]
          /\ tweets' = res.tweets
  /\ UNCHANGED <<users, videos, comments, likes, subs,
               profiles, temp, cloud, proc>>

AddComment(s) ==
  /\ reqs[s].op = "addComment"
  /\ reqs[s].pc \in {"findUser", "findTarget", "write"}
  /\ \E r \in IF reqs[s].pc = "findTarget"
                THEN {WithInput(reqs[s], v, c) :
                        v \in DOMAIN videos \cup {NoSuchId}, c \in TextValues}
                ELSE {reqs[s]} :
       LET res == AddCommentStep(r, comments)
       IN /\ reqs' = [reqs EXCEPT ![s] = res.req]
          /\ comments' = res.comments
  /\ UNCHANGED <<users, videos, tweets, likes, subs,
               profiles, temp, cloud, proc>>

CreateOps == {"uploadVideo", "uploadTweet", "addComment"}

EditOps == {"editVideo", "editTweet", "editComment"}

\* the ids the store had at start-up
SeededIds == VideoIds \cup TweetIds \cup CommentIds

\* the collection a create request adds to
CreateColl(op) ==
  CASE op = "uploadVideo" -> videos
    [] op = "uploadTweet" -> tweets
    [] op = "addComment" -> comments

\* documents created in a collection plus the requests still creating there
CreatedOrPending(op) ==
  Cardinality(DOMAIN CreateColl(op) \ SeededIds)
    + Cardinality({x \in Slots : reqs[x].op = op /\ InFlight(x)})

\* cap on the documents created or changed since start-up
MaxChanges == 3

\* the documents created or changed since start-up
Changes ==
  Cardinality(DOMAIN videos \ VideoIds) + Cardinality(DOMAIN tweets \ TweetIds)
    + Cardinality(DOMAIN comments \ CommentIds) + Cardinality(likes)
    + Cardinality({v \in VideoIds \cap DOMAIN videos : videos[v] # SeedVideo})
    + Cardinality({t \in TweetIds \cap DOMAIN tweets : tweets[t] # SeedTweet})
    + Cardinality({c \in CommentIds \cap DOMAIN comments : comments[c] # SeedComment})
    + Cardinality(SeededIds \ (DOMAIN videos \cup DOMAIN tweets \cup DOMAIN comments))
    + Cardinality(users \ Accounts) + Cardinality(Accounts \ users)

\* a create, edit or like request arrives; a create request is admitted
\* while its collection has room
ReceiveContent(s) ==
  /\ ~InFlight(s)
  /\ Changes < MaxChanges
  /\ \E op \in CreateOps \cup EditOps \cup LikeOps :
       /\ op \in CreateOps => CreatedOrPending(op) < MaxNew
       /\ reqs' = [reqs EXCEPT ![s] = NewReq(op)]
  /\ UNCHANGED <<users, videos, tweets, comments, likes, subs,
               profiles, temp, cloud, proc>>

\* the slot that serves the requests of this specification, one at a time
ContentSlots == {"r1"}

NextContent ==
  \E s \in ContentSlots :
    \/ ReceiveContent(s)
    \/ Authenticate(s)
    \/ UploadVideo(s)
    \/ UploadTweet(s)
    \/ AddComment(s)
    \/ EditVideo(s)
    \/ EditTweet(s)
    \/ EditComment(s)
    \/ VideoToggleLike(s)
    \/ TweetToggleLike(s)
    \/ CommentToggleLike(s)

SpecContent == Init /\ [][NextContent]_vars

-----------------------------------------------------------------------------
(* Immutability of the owner reference.                                    *)

\* the account that created the document with this id: the seeded documents
\* are a1's, every other id names its creator
Creator(prefix, id) ==
  IF id \in SeededIds THEN "a1"
  ELSE CHOOSE a \in Accounts : \E n \in 1..Len(Digits) : id = IdName(prefix, a, n)

C12_OwnerIsCreator ==
  /\ \A v \in DOMAIN videos : videos[v].owner = Creator("v", v)
  /\ \A t \in DOMAIN tweets : tweets[t].owner = Creator("t", t)
  /\ \A c \in DOMAIN comments : comments[c].owner = Creator("c", c)

\* the owner of a document added by this step is the account of the request
\* that took it, and a document present before and after keeps its owner
OwnerFrame(D, E) ==
  /\ \A x \in DOMAIN E \ DOMAIN D :
       \E s \in ContentSlots :
         /\ reqs[s].op \in CreateOps
         /\ reqs[s].pc = "write"
         /\ reqs'[s].pc = "done"
         /\ reqs[s].user # Null
         /\ E[x].owner = reqs[s].user
  /\ \A x \in DOMAIN D \cap DOMAIN E : E[x].owner = D[x].owner

(* C12: the owner of a video, tweet or comment is the account whose        *)
(* request created it, and no later video edit, tweet edit, comment edit   *)
(* or like toggle changes it: in every reachable state the owner of each   *)
(* existing document is its creator.                                       *)
C12_OwnerImmutable ==
  /\ []C12_OwnerIsCreator
  /\ [][ /\ OwnerFrame(videos, videos')
         /\ OwnerFrame(tweets, tweets')
         /\ OwnerFrame(comments, comments') ]_vars

\* a2 has posted a tweet and edited it afterwards, a1's video was edited and
\* a like document exists
C12_Witness ==
  /\ \E t \in DOMAIN tweets \ TweetIds :
       /\ tweets[t].owner = "a2"
       /\ tweets[t].content = " "
  /\ "v1" \in DOMAIN videos
  /\ videos["v1"].title = "new"
  /\ videos["v1"].owner = "a1"
  /\ likes # {}

-----------------------------------------------------------------------------
(* Accounts and sessions: register, login, logout, delete account.         *)

\* the usernames a client can send: empty, the name of a1, a name not yet
\* taken, and that name with a capital letter
Names == {"", "a1", "bob", "Bob"}

\* the email addresses a client can send: empty, the address of a1, that
\* address with a capital letter, an address not yet taken
Emails == {"", "a1@x.io", "A1@x.io", "bob@x.io"}

\* the passwords a client can send; none of them is blank, and the handlers
\* are given the password at the step that reads its value
Passwords == {"right", "wrong"}

\* String.prototype.toLowerCase, and the lowercase setter of the User
\* schema, on the values a client can send
ToLowerCase(nm) ==
  CASE nm = "A2" -> "a2"
    [] nm = "Bob" -> "bob"
    [] nm = "A1@x.io" -> "a1@x.io"
    [] OTHER -> nm

\* String.prototype.trim on the values a client can send
Trim(nm) == IF nm = " " THEN "" ELSE nm

\* the username of an account
UsernameOf(id) == profiles[id].username

\* UserModel.aggregate $match {username}
FindUserByName(U, nm) ==
  IF \E u \in U : UsernameOf(u) = nm
    THEN <<CHOOSE u \in U : UsernameOf(u) = nm>>
    ELSE NoDoc

\* UserModel.findOne({email}): the query is cast with the schema's setters
FindUserByEmail(P, em) ==
  IF \E u \in DOMAIN P : P[u].email = ToLowerCase(em)
    THEN <<CHOOSE u \in DOMAIN P : P[u].email = ToLowerCase(em)>>
    ELSE NoDoc

\* the accounts that hold the username or the email address, both as the
\* schema stores them
Holders(P, nm, em) ==
  {u \in DOMAIN P : P[u].username = ToLowerCase(nm) \/ P[u].email = ToLowerCase(em)}

\* the User schema without its unique indexes
UserIndexUnique_Missing == FALSE

\* unique: true on the username and email paths of the User schema
UserIndexUnique == TRUE

\* the _id of a new account
NewUserId(nm, U) ==
  IdName("u", nm,
         CHOOSE n \in 1..Len(Digits) :
           /\ IdName("u", nm, n) \notin U
           /\ \A m \in 1..(n - 1) : IdName("u", nm, m) \in U)

\* new UserModel({username, email, password: hashedPassword, avatar})
NewUser(nm, em, hashed, avatar) ==
  [username |-> ToLowerCase(nm), email |-> ToLowerCase(em), password |-> hashed,
   avatar |-> IF avatar = Null THEN DefaultAvatar ELSE avatar]

\* user.getJWT(): a token signed with the server's key, not yet expired
GetJWT(id) == Token(id, TRUE, FALSE)

\* res.cookie(name, null, {expires: now})
ClearedCookie == NoCookie

\* an unguarded route: the handler is the first thing to run
NewReqAt(op, pc) == [IdleReq EXCEPT !.op = op, !.pc = pc]

(* POST /auth/register                                                     *)
RegisterStep(r, U, P) ==
  CASE r.pc = "validate" ->
         [users |-> U, profiles |-> P,
          req |-> IF r.body = "" \/ r.email = "" \/ r.password = ""
                    THEN Fail(r, 400, "All fields are required")
                  ELSE IF r.thumbnail # Null
                    THEN Goto(r, "upload")
                  ELSE Goto(r, "findExisting")]
    [] r.pc = "upload" ->
         [users |-> U, profiles |-> P,
          req |-> [r EXCEPT !.thumbnail = UploadedUrl(r.thumbnail), !.pc = "findExisting"]]
    [] r.pc = "findExisting" ->
         [users |-> U, profiles |-> P,
          req |-> IF Holders(P, r.body, r.email) # {}
                    THEN Fail(r, 400, "A user with this email or username already exists")
                    ELSE Goto(r, "hash")]
    [] r.pc = "hash" ->
         [users |-> U, profiles |-> P,
          req |-> [r EXCEPT !.password = Hash(r.password), !.pc = "write"]]
    [] r.pc = "write" ->
         IF UserIndexUnique /\ Holders(P, r.body, r.email) # {}
           THEN [users |-> U, profiles |-> P,
                 req |-> Fail(r, 400, "E11000 duplicate key error")]
           ELSE LET id == NewUserId(ToLowerCase(r.body), U)
                IN [users |-> U \cup {id},
                    profiles |-> Insert(P, id, NewUser(r.body, r.email, r.password, r.thumbnail)),
                    req |-> [r EXCEPT !.user = id, !.pc = "sign"]]
    [] r.pc = "sign" ->
         [users |-> U, profiles |-> P,
          req |-> Ok([r EXCEPT !.setCookie = GetJWT(r.user)], 200)]

\* a login that does not compare the password with the stored hash
LoginStep_NoCompare(r, P) ==
  CASE r.pc = "findUser" ->
         IF r.email = "" \/ r.password = ""
           THEN Fail(r, 400, "All fields are required")
         ELSE IF FindUserByEmail(P, r.email) = NoDoc
           THEN Fail(r, 400, "Invalid Credentials - email")
         ELSE [r EXCEPT !.doc = <<FindUserByEmail(P, r.email)[1],
                                  P[FindUserByEmail(P, r.email)[1]].password>>,
                        !.pc = "compare"]
    [] r.pc = "compare" -> Goto(r, "sign")
    [] r.pc = "sign" ->
         Ok([r EXCEPT !.setCookie = GetJWT(r.doc[1])], 200)

(* POST /auth/login.  doc holds the _id and the password hash of the       *)
(* document findOne loaded.                                                *)
LoginStep(r, P) ==
  CASE r.pc = "findUser" ->
         IF r.email = "" \/ r.password = ""
           THEN Fail(r, 400, "All fields are required")
         ELSE IF FindUserByEmail(P, r.email) = NoDoc
           THEN Fail(r, 400, "Invalid Credentials - email")
         ELSE [r EXCEPT !.doc = <<FindUserByEmail(P, r.email)[1],
                                  P[FindUserByEmail(P, r.email)[1]].password>>,
                        !.pc = "compare"]
    [] r.pc = "compare" ->
         IF Hash(r.password) # r.doc[2]
           THEN Fail(r, 400, "Invalid Credentials - password")
           ELSE Goto(r, "sign")
    [] r.pc = "sign" ->
         Ok([r EXCEPT !.setCookie = GetJWT(r.doc[1])], 200)

\* a logout that revokes the session by removing what the token resolves to
LogoutStep_Revokes(r, U) ==
  CASE r.pc = "respond" ->
         [users |-> U \ {r.user}, req |-> Ok([r EXCEPT !.setCookie = ClearedCookie], 200)]

(* POST /auth/logout                                                       *)
LogoutStep(r, U) ==
  CASE r.pc = "respond" ->
         [users |-> U, req |-> Ok([r EXCEPT !.setCookie = ClearedCookie], 200)]

(* DELETE /users/me/profile/deleteAccount                                  *)
DeleteAccountStep(r, U) ==
  CASE r.pc = "findUser" ->
         [users |-> U,
          req |-> IF r.user \notin U
                    THEN Fail(r, 400, "Unable to find the user")
                    ELSE Goto(r, "write")]
    [] r.pc = "write" ->
         IF r.user \notin U
           THEN [users |-> U, req |-> Fail(r, 400, "Failed to delete the account")]
           ELSE [users |-> U \ {r.user},
                 req |-> Ok([r EXCEPT !.setCookie = ClearedCookie], 200)]

\* the User documents of the accounts in U
Restrict(P, U) == [u \in DOMAIN P \cap U |-> P[u]]

Register(s) ==
  /\ reqs[s].op = "register"
  /\ reqs[s].pc \in {"validate", "upload", "findExisting", "hash", "write", "sign"}
  /\ \E r \in IF reqs[s].pc = "validate"
                THEN {[reqs[s] EXCEPT !.body = nm, !.email = em, !.thumbnail = f] :
                        nm \in Names, em \in Emails, f \in FileValues}
              ELSE IF reqs[s].pc = "hash"
                THEN {[reqs[s] EXCEPT !.password = pw] : pw \in Passwords}
                ELSE {reqs[s]} :
       LET res == RegisterStep(r, users, profiles)
       IN /\ reqs' = [reqs EXCEPT ![s] = res.req]
          /\ users' = res.users
          /\ profiles' = res.profiles
  /\ UNCHANGED <<videos, tweets, comments, likes, subs, temp, cloud, proc>>

Login(s) ==
  /\ reqs[s].op = "login"
  /\ reqs[s].pc \in {"findUser", "compare", "sign"}
  /\ \E r \in IF reqs[s].pc = "findUser"
                THEN {[reqs[s] EXCEPT !.email = em] : em \in Emails}
              ELSE IF reqs[s].pc = "compare"
                THEN {[reqs[s] EXCEPT !.password = pw] : pw \in Passwords}
                ELSE {reqs[s]} :
       reqs' = [reqs EXCEPT ![s] = LoginStep(r, profiles)]
  /\ UNCHANGED <<users, videos, tweets, comments, likes, subs,
                 profiles, temp, cloud, proc>>

Logout(s) ==
  /\ reqs[s].op = "logout"
  /\ reqs[s].pc = "respond"
  /\ LET res == LogoutStep(reqs[s], users)
     IN /\ reqs' = [reqs EXCEPT ![s] = res.req]
        /\ users' = res.users
  /\ UNCHANGED <<videos, tweets, comments, likes, subs,
                 profiles, temp, cloud, proc>>

\* an account deletion that cascades to the videos the account owns
DeleteAccount_Cascade(s) ==
  /\ reqs[s].op = "deleteAccount"
  /\ reqs[s].pc \in {"findUser", "write"}
  /\ LET res == DeleteAccountStep(reqs[s], users)
     IN /\ reqs' = [reqs EXCEPT ![s] = res.req]
        /\ users' = res.users
        /\ profiles' = Restrict(profiles, res.users)
        /\ videos' = [v \in {x \in DOMAIN videos : videos[x].owner \in res.users}
                        |-> videos[v]]
  /\ UNCHANGED <<tweets, comments, likes, subs, temp, cloud, proc>>

DeleteAccount(s) ==
  /\ reqs[s].op = "deleteAccount"
  /\ reqs[s].pc \in {"findUser", "write"}
  /\ LET res == DeleteAccountStep(reqs[s], users)
     IN /\ reqs' = [reqs EXCEPT ![s] = res.req]
        /\ users' = res.users
        /\ profiles' = Restrict(profiles, res.users)
  /\ UNCHANGED <<videos, tweets, comments, likes, subs, temp, cloud, proc>>

\* the routes that sit behind no authenticateUser middleware
UnguardedOps == {"register", "login"}

SessionOps == {"register", "login", "logout", "deleteAccount", "uploadTweet"}

\* the first step of an unguarded handler
EntryPc(op) == IF op = "register" THEN "validate" ELSE "findUser"

\* accounts registered since start-up plus the register requests in flight
RegisteredOrPending ==
  Cardinality(users \ Accounts)
    + Cardinality({x \in Slots : reqs[x].op = "register" /\ InFlight(x)})

\* a request to one of the session routes, or a tweet upload, arrives
ReceiveSession(s) ==
  /\ ~InFlight(s)
  /\ \E op \in SessionOps :
       /\ op = "register" => RegisteredOrPending < MaxNew
       /\ op = "uploadTweet" => CreatedOrPending(op) < MaxNew
       /\ reqs' = [reqs EXCEPT ![s] = IF op \in UnguardedOps
                                        THEN NewReqAt(op, EntryPc(op))
                                        ELSE NewReq(op)]
  /\ UNCHANGED <<users, videos, tweets, comments, likes, subs,
               profiles, temp, cloud, proc>>

NextSession ==
  \E s \in Slots :
    \/ ReceiveSession(s)
    \/ Authenticate(s)
    \/ Register(s)
    \/ Login(s)
    \/ Logout(s)
    \/ DeleteAccount(s)
    \/ UploadTweet(s)

SpecSession == Init /\ [][NextSession]_vars

-----------------------------------------------------------------------------
(* Session resolution.                                                     *)

ExpiredTokenMsg == "Session expired. Please log in again."
InvalidTokenMsg == "Invalid authentication token"
UnauthenticatedMsg == "Authentication failed. Please try again."

\* slot s runs the authenticateUser middleware in this step
AuthStepOf(s) == reqs[s].pc = "auth" /\ reqs'[s] # reqs[s]

(* C13 as stated: resolving a token whose expiry is in the past fails with *)
(* status 401 and "Session expired. Please log in again." and attaches no  *)
(* identity, whether the token's signature is valid or not.                *)
C13_ExpiredIsAlwaysExpiredToken ==
  [][ \A s \in Slots :
        ( /\ AuthStepOf(s)
          /\ reqs'[s].cookie.present
          /\ reqs'[s].cookie.expired )
        => /\ reqs'[s].pc = "done"
           /\ reqs'[s].status = 401
           /\ reqs'[s].error = ExpiredTokenMsg
           /\ reqs'[s].user = Null
    ]_vars

(* C13 amended: resolving a token whose expiry is in the past fails with   *)
(* status 401 and attaches no identity; the reason is "Session expired.    *)
(* Please log in again." when the signature is valid and "Invalid          *)
(* authentication token" when it is not; no persisted state changes.       *)
C13_ExpiredNeverResolves ==
  [][ \A s \in Slots :
        ( /\ AuthStepOf(s)
          /\ reqs'[s].cookie.present
          /\ reqs'[s].cookie.expired )
        => /\ reqs'[s].pc = "done"
           /\ reqs'[s].status = 401
           /\ reqs'[s].user = Null
           /\ reqs'[s].cookie.signed => reqs'[s].error = ExpiredTokenMsg
           /\ ~reqs'[s].cookie.signed => reqs'[s].error = InvalidTokenMsg
           /\ UNCHANGED <<users, videos, tweets, comments, likes, subs>>
    ]_vars

\* one request was refused for an expired token with a valid signature,
\* another for an expired token with an invalid one
C13_Witness ==
  \E s \in Slots : \E t \in Slots \ {s} :
    /\ reqs[s].pc = "done"
    /\ reqs[s].cookie.present /\ reqs[s].cookie.expired /\ reqs[s].cookie.signed
    /\ reqs[s].error = ExpiredTokenMsg
    /\ reqs[s].user = Null
    /\ reqs[t].pc = "done"
    /\ reqs[t].cookie.present /\ reqs[t].cookie.expired /\ ~reqs[t].cookie.signed
    /\ reqs[t].error = InvalidTokenMsg
    /\ reqs[t].user = Null

\* a token the server issued that has not expired
ValidToken(c) == c.present /\ c.signed /\ ~c.expired

(* C14: once an account is deleted it stays deleted, and every request     *)
(* that then presents a correctly signed, unexpired token of that account  *)
(* is answered 401 by the middleware with no identity attached: the        *)
(* guarded handler is not entered and no persisted state changes.          *)
C14_DeletedAccountUnauthenticated ==
  [][ /\ \A a \in Accounts : a \notin users => a \notin users'
      /\ \A s \in Slots :
           ( /\ AuthStepOf(s)
             /\ ValidToken(reqs'[s].cookie)
             /\ reqs'[s].cookie._id \notin users )
           => /\ reqs'[s].pc = "done"
              /\ reqs'[s].status = 401
              /\ reqs'[s].error = UnauthenticatedMsg
              /\ reqs'[s].user = Null
              /\ UNCHANGED <<users, videos, tweets, comments, likes, subs>>
    ]_vars

\* an account has deleted itself and a tweet upload carrying its still
\* valid token was then refused
C14_Witness ==
  \E s \in Slots : \E t \in Slots \ {s} :
    /\ reqs[s].op = "deleteAccount"
    /\ reqs[s].pc = "done"
    /\ reqs[s].status = 200
    /\ reqs[s].user \notin users
    /\ reqs[t].op = "uploadTweet"
    /\ reqs[t].pc = "done"
    /\ ValidToken(reqs[t].cookie)
    /\ reqs[t].cookie._id = reqs[s].user
    /\ reqs[t].status = 401
    /\ tweets = [x \in TweetIds |-> SeedTweet]

(* C15: a step of a logout request changes no persisted state (the         *)
(* response only carries a cookie that is already expired), and in every   *)
(* state, hence also after a logout, a correctly signed, unexpired token   *)
(* whose account exists resolves to that account and the guarded handler   *)
(* is entered.                                                             *)
C15_LogoutRevokesNothing ==
  [][ \A s \in Slots :
        /\ ( /\ reqs[s].op = "logout"
             /\ InFlight(s)
             /\ reqs'[s] # reqs[s] )
           => UNCHANGED <<users, videos, tweets, comments, likes, subs>>
        /\ ( /\ reqs[s].op = "logout"
             /\ reqs[s].pc = "respond"
             /\ reqs'[s] # reqs[s] )
           => /\ reqs'[s].pc = "done"
              /\ reqs'[s].status = 200
              /\ reqs'[s].setCookie = ClearedCookie
        /\ ( /\ AuthStepOf(s)
             /\ ValidToken(reqs'[s].cookie)
             /\ reqs'[s].cookie._id \in users )
           => /\ reqs'[s].user = reqs'[s].cookie._id
              /\ reqs'[s].pc = FirstPc(reqs[s].op)
              /\ reqs'[s].status = 0
    ]_vars

\* a logout with a token has succeeded, the account still exists, and a
\* tweet upload presenting the same token has been authenticated and served
C15_Witness ==
  \E s \in Slots : \E t \in Slots \ {s} :
    /\ reqs[s].op = "logout"
    /\ reqs[s].pc = "done"
    /\ reqs[s].status = 200
    /\ reqs[s].setCookie = ClearedCookie
    /\ reqs[s].user \in users
    /\ reqs[t].op = "uploadTweet"
    /\ reqs[t].cookie = reqs[s].cookie
    /\ reqs[t].user = reqs[s].user
    /\ reqs[t].pc = "done"
    /\ reqs[t].status = 200

-----------------------------------------------------------------------------
(* All modelled routes together, served one request at a time.             *)

AllOps == SessionOps \cup CreateOps \cup EditOps \cup OwnOps \cup LikeOps

\* a request to any modelled route arrives.  A create request is admitted
\* while its collection has room; a delete request is admitted while its
\* collection holds only documents from start-up, so that no ObjectId is
\* ever given out twice.
ReceiveAll(s) ==
  /\ proc = "listening"
  /\ ~InFlight(s)
  /\ Changes < MaxChanges
  /\ \E op \in AllOps :
       /\ op = "register" => RegisteredOrPending < MaxNew
       /\ op \in CreateOps => CreatedOrPending(op) < MaxNew
       /\ op \in OwnOps \ EditOps => DOMAIN OwnColl(op) \subseteq SeededIds
       /\ reqs' = [reqs EXCEPT ![s] = IF op \in UnguardedOps
                                        THEN NewReqAt(op, EntryPc(op))
                                        ELSE NewReq(op)]
  /\ UNCHANGED <<users, videos, tweets, comments, likes, subs,
               profiles, temp, cloud, proc>>

NextAll ==
  \E s \in ContentSlots :
    \/ ReceiveAll(s)
    \/ Authenticate(s)
    \/ Register(s)
    \/ Login(s)
    \/ Logout(s)
    \/ DeleteAccount(s)
    \/ UploadVideo(s)
    \/ UploadTweet(s)
    \/ AddComment(s)
    \/ EditVideo(s)
    \/ EditTweet(s)
    \/ EditComment(s)
    \/ DeleteVideo(s)
    \/ DeleteTweet(s)
    \/ DeleteComment(s)
    \/ VideoToggleLike(s)
    \/ TweetToggleLike(s)
    \/ CommentToggleLike(s)

SpecAll == Init /\ [][NextAll]_vars

\* the persisted state
Store == <<users, profiles, videos, tweets, comments, likes, subs>>

\* the cookie resolves to an account: a valid token of an existing account
Resolvable(c) == ValidToken(c) /\ c._id \in users

\* the request of slot s, taking this step, went through authenticateUser
\* with a token that resolved to the identity it carries
StepOfSession(s) ==
  /\ reqs'[s] # reqs[s]
  /\ reqs[s].user # Null
  /\ ValidToken(reqs[s].cookie)
  /\ reqs[s].cookie._id = reqs[s].user

\* a request whose cookie does not resolve is answered 401 by the
\* middleware and the persisted state stays as it is
UnresolvedIsRefused ==
  \A s \in Slots :
    (AuthStepOf(s) /\ ~Resolvable(reqs'[s].cookie))
    => /\ reqs'[s].pc = "done"
       /\ reqs'[s].status = 401
       /\ reqs'[s].user = Null
       /\ Store' = Store

(* C16 as stated: every step that changes persisted state is a step of a   *)
(* request carrying a resolved session identity, and a request with a      *)
(* missing, invalid or expired token or a token of a nonexistent account   *)
(* is answered 401 and changes nothing.                                    *)
C16_EveryMutationNeedsSession ==
  [][ /\ UnresolvedIsRefused
      /\ Store' # Store => \E s \in Slots : StepOfSession(s)
    ]_vars

(* C16 amended: every step that changes persisted state is a step of a     *)
(* request carrying a resolved session identity, except the step of a      *)
(* register request that stores the new account; on every route behind     *)
(* the middleware a request with a missing, invalid or expired token or a  *)
(* token of a nonexistent account is answered 401 and changes nothing.     *)
C16_MutationNeedsSessionButRegister ==
  [][ /\ UnresolvedIsRefused
      /\ Store' # Store
         => \E s \in Slots :
              \/ StepOfSession(s)
              \/ /\ reqs[s].op = "register"
                 /\ reqs[s].pc = "write"
                 /\ reqs[s].cookie = NoCookie
                 /\ users' # users
                 /\ <<videos, tweets, comments, likes, subs>>'
                      = <<videos, tweets, comments, likes, subs>>
    ]_vars

\* an account was registered by a request without a session, and a delete
\* of the video presenting a forged token was refused with 401
C16_Witness ==
  \E s \in Slots :
    /\ users \ Accounts # {}
    /\ reqs[s].op = "deleteVideo"
    /\ reqs[s].pc = "done"
    /\ reqs[s].cookie.present
    /\ ~reqs[s].cookie.signed
    /\ ~reqs[s].cookie.expired
    /\ reqs[s].status = 401
    /\ "v1" \in DOMAIN videos

-----------------------------------------------------------------------------
(* GET /users/:username: the channel profile view.  The route is mounted   *)
(* without the authenticateUser middleware, so req.user is undefined when  *)
(* the handler runs, whatever cookie the request carries.                  *)

\* the :username values a client can send
ViewNames == {"a1", "A2", " ", "ghost"}

\* $lookup from subscriptions with foreignField channel
Subscribers(S, ch) == {e \in S : e.channel = ch}

\* $lookup from subscriptions with foreignField subscriber
SubscribedTo(S, ch) == {e \in S : e.subscriber = ch}

\* $size counting one edge too few
SizeOf_OffByOne(docs) == IF docs = {} THEN 0 ELSE Cardinality(docs) - 1

\* $size of a looked-up array
SizeOf(docs) == Cardinality(docs)

\* $in: [req.user?._id, "$subscribers.subscriber"]; an undefined viewer is
\* sent as null, which is the subscriber of no edge
IsSubscribed(viewer, S, ch) ==
  viewer # Null /\ viewer \in {e.subscriber : e \in Subscribers(S, ch)}

\* the document the aggregation pipeline produces for a channel
ChannelView(viewer, S, ch) ==
  [username |-> UsernameOf(ch),
   subscribersCount |-> SizeOf(Subscribers(S, ch)),
   subscribedToCount |-> SizeOf(SubscribedTo(S, ch)),
   isSubscribed |-> IsSubscribed(viewer, S, ch)]

ViewChannelStep(r, U, S) ==
  CASE r.pc = "aggregate" ->
         IF Trim(r.id) = ""
           THEN Fail(r, 400, "Username not found")
         ELSE IF FindUserByName(U, ToLowerCase(r.id)) = NoDoc
           THEN Fail(r, 400, "Channel not found.")
         ELSE Ok([r EXCEPT !.doc = FindUserByName(U, ToLowerCase(r.id)),
                           !.view = <<ChannelView(r.user, S,
                                        FindUserByName(U, ToLowerCase(r.id))[1])>>],
                 200)

\* the request carries whatever cookie the client has; the handler reads
\* req.params.username only
ViewChannel(s) ==
  /\ reqs[s].op = "viewChannel"
  /\ reqs[s].pc = "aggregate"
  /\ \E nm \in ViewNames, c \in Cookies :
       reqs' = [reqs EXCEPT ![s] =
                  ViewChannelStep(WithCookie(WithInput(reqs[s], nm, Null), c), users, subs)]
  /\ UNCHANGED <<users, videos, tweets, comments, likes, subs,
               profiles, temp, cloud, proc>>

\* a follow request or a channel view request arrives
ReceiveChannel(s) ==
  /\ ~InFlight(s)
  /\ \/ reqs' = [reqs EXCEPT ![s] = NewReq("follow")]
     \/ reqs' = [reqs EXCEPT ![s] = NewReqAt("viewChannel", "aggregate")]
  /\ UNCHANGED <<users, videos, tweets, comments, likes, subs,
               profiles, temp, cloud, proc>>

NextChannel ==
  \E s \in Slots :
    \/ ReceiveChannel(s)
    \/ Authenticate(s)
    \/ Follow(s)
    \/ ViewChannel(s)

SpecChannel == Init /\ [][NextChannel]_vars

\* slot s completes a channel view with success in this step
ViewDoneBy(s) ==
  /\ reqs[s].op = "viewChannel"
  /\ reqs[s].pc = "aggregate"
  /\ reqs'[s].pc = "done"
  /\ reqs'[s].status = 200

(* C17: a successful channel view of account X reports subscribersCount =  *)
(* the number of Subscription edges with channel X and subscribedToCount = *)
(* the number of edges with subscriber X, both counted on the edge set as  *)
(* it is when the view runs, and the view writes nothing; a follow that    *)
(* succeeds adds one edge to its channel and writes no other stored value, *)
(* so a view run afterwards reports a count one higher.                    *)
C17_CountsFromCurrentEdges ==
  [][ \A s \in Slots :
        /\ ViewDoneBy(s)
           => /\ Len(reqs'[s].view) = 1
              /\ reqs'[s].doc[1] \in users
              /\ UsernameOf(reqs'[s].doc[1]) = ToLowerCase(reqs'[s].id)
              /\ reqs'[s].view[1].subscribersCount
                   = Cardinality({e \in subs : e.channel = reqs'[s].doc[1]})
              /\ reqs'[s].view[1].subscribedToCount
                   = Cardinality({e \in subs : e.subscriber = reqs'[s].doc[1]})
              /\ Store' = Store
        /\ ( /\ reqs[s].op = "follow"
             /\ reqs[s].pc = "save"
             /\ reqs'[s].status = 201 )
           => /\ Cardinality({e \in subs' : e.channel = reqs[s].id})
                   = Cardinality({e \in subs : e.channel = reqs[s].id}) + 1
              /\ users' = users
    ]_vars

\* a view of a1 reported one subscriber, a second account followed a1, and
\* a view run after that reported two
C17_Witness ==
  \E s \in Slots : \E t \in Slots \ {s} :
    /\ reqs[s].op = "viewChannel" /\ reqs[t].op = "viewChannel"
    /\ reqs[s].pc = "done" /\ reqs[t].pc = "done"
    /\ reqs[s].status = 200 /\ reqs[t].status = 200
    /\ reqs[s].doc = <<"a1">> /\ reqs[t].doc = <<"a1">>
    /\ reqs[s].view[1].subscribersCount = 1
    /\ reqs[t].view[1].subscribersCount = 2
    /\ reqs[t].view[1].subscribedToCount = 1
    /\ Cardinality({e \in subs : e.channel = "a1"}) = 2

(* C18: in a successful channel view isSubscribed is true exactly when the *)
(* request carries a session token that resolves to an account and an edge *)
(* from that account to the viewed channel exists; in particular a         *)
(* subscriber of the channel who presents a valid token sees isSubscribed  *)
(* = true.                                                                 *)
C18_IsSubscribedIffViewerFollows ==
  [][ \A s \in Slots :
        ViewDoneBy(s)
        => ( reqs'[s].view[1].isSubscribed
             <=> /\ Resolvable(reqs'[s].cookie)
                 /\ \E e \in subs : /\ e.subscriber = reqs'[s].cookie._id
                                    /\ e.channel = reqs'[s].doc[1] )
    ]_vars

-----------------------------------------------------------------------------
(* GET /users/me/history: the history view.  Like the channel view it is   *)
(* mounted without the authenticateUser middleware, so req.user is         *)
(* undefined when the handler runs and reading req.user._id throws.        *)

\* cap on the length of a stored watchHistory list
MaxHistory == 2

\* the identifiers a stored list can hold: a video of the collection and
\* one that was deleted since
HistoryIds == VideoIds \cup {"gone"}

\* the values the watchHistory field of an account document can hold
HistoryLists ==
  UNION {[1..n -> HistoryIds] : n \in 0..MaxHistory}

\* the elements of a sequence
Range(sq) == {sq[i] : i \in 1..Len(sq)}

RECURSIVE SeqOfSet(_)
\* the documents of a collection in the order a scan returns them
SeqOfSet(S) ==
  IF S = {} THEN <<>>
  ELSE LET x == CHOOSE y \in S : TRUE
       IN <<x>> \o SeqOfSet(S \ {x})

\* a $project stage that lets the whole owner document through
ProjectOwner_Whole(id, doc) ==
  [_id |-> id, username |-> doc.username, avatar |-> doc.avatar,
   email |-> doc.email, password |-> doc.password]

\* $project: {username: 1, avatar: 1}, which keeps _id as well
ProjectOwner(id, doc) ==
  [_id |-> id, username |-> doc.username, avatar |-> doc.avatar]

\* inner $lookup from users and $addFields owner: {$first: "$owner"}; owner
\* is <<>> when the lookup matched no account and the field is missing
HistoryEntry(P, V, id) ==
  [_id |-> id,
   title |-> V[id].title,
   owner |-> IF V[id].owner \in DOMAIN P
               THEN <<ProjectOwner(V[id].owner, P[V[id].owner])>>
               ELSE <<>>]

RECURSIVE EntriesOf(_, _, _)
EntriesOf(P, V, ids) ==
  IF ids = <<>> THEN <<>>
  ELSE <<HistoryEntry(P, V, Head(ids))>> \o EntriesOf(P, V, Tail(ids))

\* $lookup from videos with localField watchHistory: every video whose _id
\* equals some element of the array, once each, in scan order
LookupHistory(P, V, wh) ==
  EntriesOf(P, V, SeqOfSet(DOMAIN V \cap Range(wh)))

HistoryStep(r, P, V, wh) ==
  CASE r.pc = "aggregate" ->
         IF r.user = Null
           THEN Fail(r, 400, "Unable to fetch the watch History :: ERROR : Cannot read properties of undefined (reading '_id')")
         ELSE IF r.user \notin DOMAIN P
           THEN Fail(r, 400, "Unable to fetch the watch History :: ERROR : Cannot read properties of undefined (reading 'watchHistory')")
         ELSE Ok([r EXCEPT !.doc = wh,
                           !.view = LookupHistory(P, V, wh)], 200)

\* the request carries whatever cookie the client has, and the account
\* document holds whatever list was stored in it
History(s) ==
  /\ reqs[s].op = "history"
  /\ reqs[s].pc = "aggregate"
  /\ \E c \in Cookies, wh \in HistoryLists :
       reqs' = [reqs EXCEPT ![s] =
                  HistoryStep(WithCookie(reqs[s], c), profiles, videos, wh)]
  /\ UNCHANGED <<users, videos, tweets, comments, likes, subs,
               profiles, temp, cloud, proc>>

\* a history request arrives
ReceiveHistory(s) ==
  /\ ~InFlight(s)
  /\ reqs' = [reqs EXCEPT ![s] = NewReqAt("history", "aggregate")]
  /\ UNCHANGED <<users, videos, tweets, comments, likes, subs,
               profiles, temp, cloud, proc>>

NextHistory ==
  \E s \in Slots :
    \/ ReceiveHistory(s)
    \/ History(s)

SpecHistory == Init /\ [][NextHistory]_vars

\* slot s completes a history request in this step
HistoryDoneBy(s) ==
  /\ reqs[s].op = "history"
  /\ reqs[s].pc = "aggregate"
  /\ reqs'[s].pc = "done"

(* C19: the history view answers with one entry per element of the stored  *)
(* watchHistory list of the account, in the stored order, so that an       *)
(* identifier stored twice appears twice in the answer.                    *)
C19_HistoryKeepsStoredOrder ==
  [][ \A s \in Slots :
        ( HistoryDoneBy(s) /\ Resolvable(reqs'[s].cookie) )
        => /\ reqs'[s].status = 200
           /\ Len(reqs'[s].view) = Len(reqs'[s].doc)
           /\ \A i \in 1..Len(reqs'[s].doc) :
                reqs'[s].view[i]._id = reqs'[s].doc[i]
    ]_vars

(* C20: a history request that carries a valid session cookie of an        *)
(* existing account has its identity resolved to that account and is       *)
(* answered with success.                                                  *)
C20_AuthenticatedHistorySucceeds ==
  [][ \A s \in Slots :
        ( HistoryDoneBy(s) /\ Resolvable(reqs'[s].cookie) )
        => /\ reqs'[s].user = reqs'[s].cookie._id
           /\ reqs'[s].status = 200
    ]_vars

-----------------------------------------------------------------------------
(* Status codes of failure responses.                                      *)

(* C23: every failure response has status 400 when the request failed on   *)
(* validation, ownership or a missing resource, and status 401 exactly     *)
(* when it failed in session resolution; no failure is answered with any   *)
(* other status.                                                           *)
C23_FailureStatuses ==
  [][ \A s \in Slots :
        ( /\ reqs'[s] # reqs[s]
          /\ reqs'[s].pc = "done"
          /\ reqs'[s].error # Null )
        => /\ reqs'[s].status \in {400, 401}
           /\ reqs'[s].status = 401 <=> reqs[s].pc = "auth"
    ]_vars

-----------------------------------------------------------------------------
(* Account deletion.                                                       *)

(* C24: a step of an account deletion request changes no video, tweet,     *)
(* comment, Like row or Subscription edge, whoever owns it; the step that  *)
(* answers with success removes the requesting account's User document and *)
(* nothing else, every other step of the request leaves all accounts as    *)
(* they are.                                                               *)
C24_DeletionRemovesOnlyTheAccount ==
  [][ \A s \in Slots :
        ( /\ reqs[s].op = "deleteAccount"
          /\ InFlight(s)
          /\ reqs'[s] # reqs[s] )
        => /\ <<videos, tweets, comments, likes, subs>>'
                = <<videos, tweets, comments, likes, subs>>
           /\ IF reqs[s].pc = "write" /\ reqs'[s].status = 200
                THEN /\ users' = users \ {reqs[s].user}
                     /\ DOMAIN profiles' = DOMAIN profiles \ {reqs[s].user}
                ELSE /\ users' = users
                     /\ DOMAIN profiles' = DOMAIN profiles
           /\ \A u \in DOMAIN profiles' : profiles'[u] = profiles[u]
    ]_vars

\* a1 has deleted its account; the video, tweet and comment it owns, a Like
\* row it made and the other account are still stored
C24_Witness ==
  \E s \in Slots :
    /\ reqs[s].op = "deleteAccount"
    /\ reqs[s].pc = "done"
    /\ reqs[s].status = 200
    /\ reqs[s].user = "a1"
    /\ "a1" \notin users
    /\ "a2" \in users
    /\ \E v \in DOMAIN videos : videos[v].owner = "a1"
    /\ \E t \in DOMAIN tweets : tweets[t].owner = "a1"
    /\ \E c \in DOMAIN comments : comments[c].owner = "a1"
    /\ \E l \in likes : l.likedBy = "a1"

-----------------------------------------------------------------------------
(* Registrations and logins in flight at the same time.                    *)

\* cap on the registrations admitted
MaxRegister == 2

\* a register request arrives while there is room, or a login request
ReceiveRegister(s) ==
  /\ ~InFlight(s)
  /\ \E op \in UnguardedOps :
       /\ op = "register" => RegisteredOrPending < MaxRegister
       /\ reqs' = [reqs EXCEPT ![s] = NewReqAt(op, EntryPc(op))]
  /\ UNCHANGED <<users, videos, tweets, comments, likes, subs,
                 profiles, temp, cloud, proc>>

NextRegister ==
  \E s \in Slots :
    \/ ReceiveRegister(s)
    \/ Register(s)
    \/ Login(s)

SpecRegister == Init /\ [][NextRegister]_vars

\* the error texts the store and the ODM produce
StoreErrors == {"E11000 duplicate key error", SaveError}

(* C22: no failure response carries a hashed password or an error text     *)
(* produced by the store; its error field is a reason the application      *)
(* chose.                                                                  *)
C22_NoStoreErrorInFailure ==
  \A s \in Slots :
    reqs[s].error # Null
    => /\ reqs[s].error \notin StoreErrors
       /\ reqs[s].error \notin {Hash(pw) : pw \in Passwords}

\* no two accounts hold the same username or the same email address, and
\* both are stored in lower case
C26_UniqueAccounts ==
  /\ users = DOMAIN profiles
  /\ \A u \in users :
       /\ profiles[u].username = ToLowerCase(profiles[u].username)
       /\ profiles[u].email = ToLowerCase(profiles[u].email)
       /\ \A v \in users \ {u} :
            /\ profiles[u].username # profiles[v].username
            /\ profiles[u].email # profiles[v].email

(* C26: in every reachable state no two accounts share a case-normalized   *)
(* handle or a contact address, also when registrations run at the same    *)
(* time or differ from a stored handle only in letter case; a registration *)
(* whose handle or address is held by an account when it is written fails  *)
(* and creates no account.                                                 *)
C26_UniqueHandleAndEmail ==
  /\ []C26_UniqueAccounts
  /\ [][ \A s \in Slots :
           ( /\ reqs[s].op = "register"
             /\ reqs[s].pc \in {"findExisting", "write"}
             /\ reqs'[s] # reqs[s]
             /\ Holders(profiles, reqs[s].body, reqs[s].email) # {} )
           => /\ reqs'[s].pc = "done"
              /\ reqs'[s].status = 400
              /\ users' = users
              /\ profiles' = profiles
       ]_vars

\* two registrations of the same handle ran at the same time, one in
\* capitals: one created the account, the store refused the other
C26_Witness ==
  \E s \in Slots : \E t \in Slots \ {s} :
    /\ reqs[s].op = "register" /\ reqs[t].op = "register"
    /\ reqs[s].pc = "done" /\ reqs[t].pc = "done"
    /\ reqs[s].status = 200
    /\ reqs[s].body = "bob"
    /\ reqs[t].body = "Bob"
    /\ reqs[t].status = 400
    /\ reqs[t].error = "E11000 duplicate key error"
    /\ Cardinality(users \ Accounts) = 1

(* C30: a response sets a session cookie with a token for account A only   *)
(* when it is the success response of a registration that created A or of  *)
(* a login whose email is A's and whose password matches A's stored hash;  *)
(* a request that fails sets no session cookie.                            *)
C30_TokenOnlyForProvenIdentity ==
  [][ \A s \in Slots :
        /\ ( reqs'[s].setCookie # reqs[s].setCookie /\ reqs'[s].setCookie.present )
           => LET A == reqs'[s].setCookie._id
                  doc == IF A \in DOMAIN profiles THEN profiles[A] ELSE SeedProfile(A)
              IN /\ reqs'[s].pc = "done"
                 /\ reqs'[s].status = 200
                 /\ reqs[s].op \in {"register", "login"}
                 /\ doc.email = ToLowerCase(reqs[s].email)
                 /\ reqs[s].op = "register"
                      => /\ A \in users
                         /\ A \notin Accounts
                         /\ doc.username = ToLowerCase(reqs[s].body)
                         /\ doc.password = reqs[s].password
                 /\ reqs[s].op = "login"
                      => doc.password = Hash(reqs[s].password)
        /\ ( reqs'[s] # reqs[s] /\ reqs'[s].pc = "done" /\ reqs'[s].status # 200 )
           => ~reqs'[s].setCookie.present
    ]_vars

\* a login with the password bob registered got a token for bob's account,
\* and a login for a1 with that same password, which is not a1's, got none
C30_Witness ==
  \E s \in Slots : \E t \in Slots \ {s} :
    /\ reqs[s].op = "login" /\ reqs[t].op = "login"
    /\ reqs[s].pc = "done" /\ reqs[t].pc = "done"
    /\ reqs[s].status = 200
    /\ reqs[s].email = "bob@x.io"
    /\ reqs[s].password = "wrong"
    /\ reqs[s].setCookie = GetJWT("u-bob-1")
    /\ reqs[t].email = "A1@x.io"
    /\ reqs[t].password = "wrong"
    /\ reqs[t].status = 400
    /\ reqs[t].error = "Invalid Credentials - password"
    /\ ~reqs[t].setCookie.present

-----------------------------------------------------------------------------
(* The owner data of the history view.  The handler never gets as far as   *)
(* the pipeline, so the pipeline is checked as a function of the store.    *)

\* what the pipeline returns for a history list that holds every video
HistoryOfAll == LookupHistory(profiles, videos, SeqOfSet(DOMAIN videos))

(* C21: whatever the store holds, the owner joined onto a video of the     *)
(* history view has the fields _id, username and avatar and no other, and  *)
(* none of them holds the password hash or the email address of an         *)
(* account.                                                                *)
C21_OwnerProjection ==
  /\ Len(HistoryOfAll) = Cardinality(DOMAIN videos)
  /\ \A i \in 1..Len(HistoryOfAll) :
       /\ Len(HistoryOfAll[i].owner) = 1 <=> videos[HistoryOfAll[i]._id].owner \in users
       /\ \A j \in 1..Len(HistoryOfAll[i].owner) :
            LET o == HistoryOfAll[i].owner[j]
            IN /\ DOMAIN o = {"_id", "username", "avatar"}
               /\ o._id = videos[HistoryOfAll[i]._id].owner
               /\ o.username = profiles[o._id].username
               /\ \A f \in DOMAIN o : \A u \in users :
                    o[f] \notin {profiles[u].password, profiles[u].email}

\* the store holds a video whose owner has deleted the account and a video
\* of an account that exists, and an account registered with its own
\* password
C21_Witness ==
  /\ \E i \in 1..Len(HistoryOfAll) : HistoryOfAll[i].owner = <<>>
  /\ \E i \in 1..Len(HistoryOfAll) :
       /\ Len(HistoryOfAll[i].owner) = 1
       /\ HistoryOfAll[i].owner[1].username = "a2"
  /\ \E u \in users \ Accounts : profiles[u].password = Hash("wrong")

-----------------------------------------------------------------------------
(* Media: the multer disk storage, the media store service and the avatar  *)
(* edit route.  temp maps the path of each file in public/temp to its      *)
(* content, named after the file the client sent; cloud maps the URL of    *)
(* each object ever uploaded to its content and to whether it still        *)
(* exists.  The cover image route is the avatar route with the field name  *)
(* changed.                                                                *)

\* cap on the objects uploaded to the media store
MaxUploads == 2

\* file.originalname of the files a client can send
OriginalNames == {"a.png", "b.png", "c.jpg"}

\* path.extname(file.originalname)
ExtName(name) == IF name = "c.jpg" THEN ".jpg" ELSE ".png"

\* destination and filename of the disk storage
TempPath(field, name) == "public/temp/" \o field \o "-" \o ExtName(name)

\* the URL cloudinary.url builds for the n-th object uploaded
CloudUrl(n) == "res.cloudinary.com/" \o Digits[n]

\* avatarCloudinaryUrl.includes("res.cloudinary.com")
IsCloudinaryUrl(url) == url \in {CloudUrl(n) : n \in 1..Len(Digits)}

\* the avatar of a loaded User document: the schema default stands in for
\* a path that is not stored
LoadedAvatar(P, u) == IF P[u].avatar = Null THEN DefaultAvatar ELSE P[u].avatar

\* deleteOnCloudinary: uploader.destroy of the object behind a media store
\* URL; any other URL is skipped
DeleteOnCloudinary(C, url) ==
  IF IsCloudinaryUrl(url) /\ url \in DOMAIN C
    THEN [C EXCEPT ![url].live = FALSE]
    ELSE C

\* cloudinary.uploader.upload(localFilePath).catch(log): the upload result,
\* the URL of a new object holding the content of the file, or Null when
\* the file is missing or the media store fails (ok = FALSE)
UploadResult(T, C, path, ok) ==
  IF ok /\ path \in DOMAIN T THEN CloudUrl(Cardinality(DOMAIN C) + 1) ELSE Null

\* uploadOnCloudinary up to its await: the error of a failed upload is
\* logged and the function goes on with an undefined result
UploadOnCloudinary(r, T, C, ok) ==
  IF UploadResult(T, C, r.id, ok) = Null
    THEN [cloud |-> C, req |-> [r EXCEPT !.video = Null, !.pc = "unlink"]]
    ELSE [cloud |-> Insert(C, UploadResult(T, C, r.id, ok),
                           [content |-> T[r.id], live |-> TRUE]),
          req |-> [r EXCEPT !.video = UploadResult(T, C, r.id, ok), !.pc = "unlink"]]

\* uploadMiddleware.fields([{name: "avatar"}]): req.files.avatar[0] with
\* its originalname and its path
MulterFile(r, name) ==
  [r EXCEPT !.thumbnail = name,
            !.id = IF name = Null THEN Null ELSE TempPath("avatar", name)]

(* PATCH /users/me/profile/edit/avatar.  r.id is the path of the uploaded  *)
(* file, r.thumbnail its originalname, r.doc the avatar of the loaded      *)
(* document, r.video the URL of the upload result.                         *)
EditAvatarStep(r, P, T, C, ok) ==
  CASE r.pc = "multer" ->
         [profiles |-> P, cloud |-> C,
          temp |-> IF r.thumbnail = Null THEN T ELSE Insert(T, r.id, r.thumbnail),
          req |-> Goto(r, "findUser")]
    [] r.pc = "findUser" ->
         [profiles |-> P, cloud |-> C, temp |-> T,
          req |-> IF r.user \notin DOMAIN P
                    THEN Fail(r, 400, "Unable to find the user")
                  ELSE IF LoadedAvatar(P, r.user) = ""
                    THEN Fail(r, 400, "Cannot get the Avatar link from the database")
                  ELSE [r EXCEPT !.doc = <<LoadedAvatar(P, r.user)>>, !.pc = "deleteOld"]]
    [] r.pc = "deleteOld" ->
         [profiles |-> P, temp |-> T,
          cloud |-> DeleteOnCloudinary(C, r.doc[1]),
          req |-> IF r.thumbnail = Null
                    THEN Fail(r, 400, "Pls add a file")
                    ELSE Goto(r, "upload")]
    [] r.pc = "upload" ->
         [profiles |-> P, temp |-> T,
          cloud |-> UploadOnCloudinary(r, T, C, ok).cloud,
          req |-> UploadOnCloudinary(r, T, C, ok).req]
    [] r.pc = "unlink" ->
         IF r.id \notin DOMAIN T
           THEN [profiles |-> P, cloud |-> C, temp |-> T,
                 req |-> Fail(r, 400, "ENOENT: no such file or directory, unlink")]
           ELSE [profiles |-> P, cloud |-> C,
                 temp |-> Restrict(T, DOMAIN T \ {r.id}),
                 req |-> Goto(r, "save")]
    [] r.pc = "save" ->
         IF r.user \notin DOMAIN P
           THEN [profiles |-> P, cloud |-> C, temp |-> T,
                 req |-> Fail(r, 400, SaveError)]
           ELSE [profiles |-> [P EXCEPT ![r.user].avatar = r.video],
                 cloud |-> C, temp |-> T,
                 req |-> Ok(r, 200)]

\* the file is read when multer has parsed the request; whether the media
\* store accepts the upload is known when the upload is awaited
EditAvatar(s) ==
  /\ reqs[s].op = "editAvatar"
  /\ reqs[s].pc \in {"multer", "findUser", "deleteOld", "upload", "unlink", "save"}
  /\ \E name \in IF reqs[s].pc = "multer" THEN OriginalNames \cup {Null}
                                          ELSE {reqs[s].thumbnail},
        ok \in IF reqs[s].pc = "upload" THEN BOOLEAN ELSE {TRUE} :
       LET res == EditAvatarStep(IF reqs[s].pc = "multer"
                                   THEN MulterFile(reqs[s], name)
                                   ELSE reqs[s],
                                 profiles, temp, cloud, ok)
       IN /\ reqs' = [reqs EXCEPT ![s] = res.req]
          /\ profiles' = res.profiles
          /\ temp' = res.temp
          /\ cloud' = res.cloud
  /\ UNCHANGED <<users, videos, tweets, comments, likes, subs, proc>>

\* an avatar edit request arrives while the media store has room
ReceiveMedia(s) ==
  /\ ~InFlight(s)
  /\ Cardinality(DOMAIN cloud)
       + Cardinality({x \in Slots : reqs[x].op = "editAvatar" /\ InFlight(x)})
         < MaxUploads
  /\ reqs' = [reqs EXCEPT ![s] = NewReq("editAvatar")]
  /\ UNCHANGED <<users, videos, tweets, comments, likes, subs,
                 profiles, temp, cloud, proc>>

NextMedia ==
  \E s \in Slots :
    \/ ReceiveMedia(s)
    \/ Authenticate(s)
    \/ EditAvatar(s)

SpecMedia == Init /\ [][NextMedia]_vars

\* the request of slot s has a file in public/temp that it has not removed
HoldsTempFile(s) ==
  /\ reqs[s].op = "editAvatar"
  /\ reqs[s].pc \in {"findUser", "deleteOld", "upload", "unlink"}
  /\ reqs[s].thumbnail # Null

(* C27: two requests that each hold an uploaded file at the same time hold *)
(* them under different temporary paths, so no request's upload or unlink  *)
(* touches the file of another request.                                    *)
C27_TempPathsDistinct ==
  \A s \in Slots : \A t \in Slots \ {s} :
    (HoldsTempFile(s) /\ HoldsTempFile(t)) => reqs[s].id # reqs[t].id

(* C28: when the upload to the media store fails, uploadOnCloudinary       *)
(* reports the failure: the request ends with an error, and the avatar     *)
(* that a save stores is the URL of an object that the request uploaded.   *)
C28_FailedUploadIsReported ==
  [][ \A s \in Slots :
        ( reqs[s].op = "editAvatar" /\ reqs'[s] # reqs[s] )
        => /\ ( reqs[s].pc = "upload" /\ reqs'[s].video = Null )
              => ( reqs'[s].pc = "done" /\ reqs'[s].status = 400 )
           /\ ( reqs[s].pc = "save" /\ profiles' # profiles )
              => /\ reqs[s].video \in DOMAIN cloud
                 /\ profiles'[reqs[s].user].avatar = reqs[s].video
    ]_vars

\* the stored avatar of account u is the URL of an object that was deleted
Dangling(u) ==
  /\ profiles[u].avatar \in DOMAIN cloud
  /\ ~cloud[profiles[u].avatar].live

(* C29: an avatar edit that fails leaves the stored avatar of the account  *)
(* as it was and the object behind it in place: once no edit of an         *)
(* account is in flight, its stored avatar is not the URL of a deleted     *)
(* object, and a step that ends an edit with a failure changes neither     *)
(* the stored accounts nor the media store.                                *)
C29_AvatarEditAllOrNothing ==
  /\ [](\A u \in DOMAIN profiles :
          Dangling(u) => \E s \in Slots : /\ reqs[s].op = "editAvatar"
                                          /\ InFlight(s)
                                          /\ reqs[s].user = u)
  /\ [][ \A s \in Slots :
           ( /\ reqs[s].op = "editAvatar"
             /\ reqs[s].pc \notin {"auth", "done"}
             /\ reqs'[s].pc = "done"
             /\ reqs'[s].status = 400 )
           => /\ profiles' = profiles
              /\ cloud' = cloud
       ]_vars

(***************************************************************************)
(* Process life cycle: server.ts connects to the store and listens only    *)
(* when the connection is established; connectDB and the catch of          *)
(* server.ts are the two calls of process.exit in the program.             *)
(***************************************************************************)

\* the process before connectDB() has settled
InitServer ==
  /\ users = Accounts
  /\ videos = [v \in VideoIds |-> SeedVideo]
  /\ tweets = [t \in TweetIds |-> SeedTweet]
  /\ comments = [c \in CommentIds |-> SeedComment]
  /\ likes = {}
  /\ subs = {}
  /\ reqs = [s \in Slots |-> IdleReq]
  /\ profiles = [a \in Accounts |-> SeedProfile(a)]
  /\ temp = <<>>
  /\ cloud = <<>>
  /\ proc = "starting"

\* connectDB(): mongoose.connect resolves and app.listen is called, or it
\* rejects and the catch block calls process.exit(1)
Connect ==
  /\ proc = "starting"
  /\ \E connected \in BOOLEAN :
       proc' = IF connected THEN "listening" ELSE "exited"
  /\ UNCHANGED <<users, videos, tweets, comments, likes, subs, reqs,
                 profiles, temp, cloud>>

NextServer ==
  \/ Connect
  \/ NextAll

SpecServer == InitServer /\ [][NextServer]_vars

====
